---- MODULE Spec2Model ----
(***************************************************************************)
(* The agent session engine of GoLaunch: the React hook useAcpAgent        *)
(* (src/unnamed/part_009), its Tauri event listeners and its asynchronous  *)
(* operations, as a state machine.                                         *)
(*                                                                         *)
(* React state set through setX(...) is modelled by the variable of the    *)
(* same name holding the value the queued updaters produce.  The refs      *)
(* threadRef and activeConversationIdRef are copied from that state only   *)
(* when the component renders (lines 44-47): Render is the step that does  *)
(* it.  Every await splits an operation in two steps: the call, and its    *)
(* continuation when the promise settles.                                  *)
(***************************************************************************)
EXTENDS Integers, Sequences, FiniteSets, TLC

VARIABLES
    status,                  \* useState<AgentStatus>, line 19
    messages,                \* useState(""), line 20: the turn's message buffer
    thread,                  \* useState<AgentThreadMessage[]>, line 21
    thoughts,                \* useState(""), line 22
    isThinking,              \* line 23
    turnActive,              \* line 24
    permissionRequest,       \* line 25
    activeAssistantIdRef,    \* useRef, line 27
    activeConversationId,    \* line 31
    conversations,           \* lines 34-36: the ids of the conversations listed
    configOptions,           \* useState<SessionConfigOptionInfo[]>, line 39
    threadRef,               \* line 44-45: thread as of the last render
    activeConversationIdRef, \* line 46-47: activeConversationId as of the last render
    pr,                      \* the prompt() invocations and where each stands
    pending,                 \* the other operations awaiting their outbound call
    store,                   \* the Conversation Store: conversation id -> messages
    last,                    \* history: the step just taken and the calls it issued
    curTurn,                 \* history: the prompt accepted last (0: none)
    cancelledTurns,          \* history: the prompts whose turn a cancel() ended
    loaded,                  \* history: conversation loaded, no prompt accepted since
    persistCount,            \* history: assistant persistence calls per assistant id
    idleTransitions,         \* history: Active->Idle steps since the last accepted prompt
    nEvents,                 \* history: inbound events delivered so far
    startupConnectAttempted, \* useRef(false), line 28
    startupConnects,         \* history: connect calls the startup reattachment made
    startupEnv               \* connectOnStartup's local config.env, lines 211-232

vars == <<status, configOptions, messages, thread, thoughts, isThinking, turnActive,
          permissionRequest, activeAssistantIdRef, activeConversationId,
          threadRef, activeConversationIdRef, pr, pending, store, last,
          curTurn, cancelledTurns, loaded, persistCount, idleTransitions, nEvents,
          startupConnectAttempted, startupConnects, conversations, startupEnv>>

----------------------------------------------------------------------------
(* Bounds of the model. *)

MaxPrompts == 2
MaxEvents == 2
MaxInFlight == 1
(* The prompts made in the specifications that follow one turn closely. *)
PromptBudget == 1

(* Program constant: the title cut of prompt(), line 278. *)
TitleMax == 50

----------------------------------------------------------------------------
(* Values. Text is a sequence of characters. *)

NullStr == "null"
NoId == [k |-> "none", n |-> 0]
NoConv == 0
NoPermission == [request_id |-> 0, command_preview |-> NullStr]

Texts == {<<"a">>, <<"b">>}
ThoughtTexts == {<<"t">>}
Queries == {<<" ">>, <<"q">>, <<" ", "q", " ">>}
ToolIds == {1, 2}
Titles == {NullStr, "T"}
StatusTokens == {NullStr, "Some(Complete)", "Some(Error)", "Some(InProgress)"}
Previews == {NullStr, "rm"}
AgentStatuses == {"disconnected", "connecting", "connected", "error"}
(* The lists of option ids the agent returns or pushes. *)
OptionLists == {<<"model">>, <<"mode", "model">>}

FallbackText == <<"I hit an error while sending that. Please try again.">>

----------------------------------------------------------------------------
(* Pure helpers of the hook. *)

RECURSIVE TrimLeft(_)
TrimLeft(q) == IF q # <<>> /\ Head(q) = " " THEN TrimLeft(Tail(q)) ELSE q

RECURSIVE TrimRight(_)
TrimRight(q) ==
    IF q # <<>> /\ q[Len(q)] = " " THEN TrimRight(SubSeq(q, 1, Len(q) - 1)) ELSE q

(* Trim leaving the spaces at the end. *)
TrimLeftOnly(q) == TrimLeft(q)

(* query.trim(), line 268 *)
Trim(q) == TrimRight(TrimLeft(q))

(* Title cutting a text of exactly TitleMax characters too. *)
TitleCutAtLimit(nq) ==
    IF Len(nq) >= TitleMax THEN SubSeq(nq, 1, TitleMax) \o <<".", ".", ".">> ELSE nq

(* the conversation title, lines 277-280 *)
Title(nq) ==
    IF Len(nq) > TitleMax THEN SubSeq(nq, 1, TitleMax) \o <<".", ".", ".">> ELSE nq

(* makeMessageId: a fresh id per prompt() invocation p, lines 14-16 *)
makeMessageId(prefix, p) == [k |-> prefix, n |-> p]

(* `tool-${id}`, lines 80, 90, 148, 365 *)
ToolEntryId(id) == [k |-> "tool", n |-> id]

Entry(id, role, content, title, st, preview) ==
    [id |-> id, role |-> role, content |-> content,
     toolTitle |-> title, toolStatus |-> st, commandPreview |-> preview]

UserEntry(p, nq) == Entry(makeMessageId("user", p), "user", nq, NullStr, NullStr, NullStr)

AssistantEntry(p) ==
    Entry(makeMessageId("assistant", p), "assistant", <<>>, NullStr, NullStr, NullStr)

(* the entry a tool_call event appends, lines 79-85 *)
ToolCallEntry(id, title) ==
    Entry(ToolEntryId(id), "tool", <<>>,
          IF title = NullStr THEN "Tool" ELSE title, "running", NullStr)

(* AppendChunk with the guard on the active-assistant pointer lost: the   *)
(* text goes to the last assistant entry of the thread.                   *)
AppendChunkToLastAssistant(t, activeAssistantId, text) ==
    LET hits == {i \in 1..Len(t) : t[i].role = "assistant"}
    IN  IF hits = {} THEN t
        ELSE LET i == CHOOSE k \in hits : \A j \in hits : j <= k
             IN  [t EXCEPT ![i].content = @ \o text]

(* AppendChunk putting the text in front of the content. *)
AppendChunkInFront(t, activeAssistantId, text) ==
    IF activeAssistantId # NoId
    THEN [i \in 1..Len(t) |->
              IF t[i].id = activeAssistantId
              THEN [t[i] EXCEPT !.content = text \o t[i].content]
              ELSE t[i]]
    ELSE t

(* message_chunk's update of the thread, lines 58-67 *)
AppendChunk(t, activeAssistantId, text) ==
    IF activeAssistantId # NoId
    THEN [i \in 1..Len(t) |->
              IF t[i].id = activeAssistantId
              THEN [t[i] EXCEPT !.content = t[i].content \o text]
              ELSE t[i]]
    ELSE t

(* UpdateToolEntry matching on the role instead of the id. *)
UpdateToolEntryAnyTool(entry, toolEntryId, title, tok) ==
    IF entry.role = "tool"
    THEN [entry EXCEPT
            !.toolTitle = IF title = NullStr THEN entry.toolTitle ELSE title,
            !.toolStatus = IF tok = "Some(Complete)" THEN "completed"
                           ELSE IF tok = "Some(Error)" THEN "error"
                           ELSE entry.toolStatus]
    ELSE entry

(* UpdateToolEntry dropping the whole update, its title too, when the     *)
(* status token is outside the mapping.                                    *)
UpdateToolEntryKnownToken(entry, toolEntryId, title, tok) ==
    IF entry.id = toolEntryId /\ tok \in {"Some(Complete)", "Some(Error)"}
    THEN [entry EXCEPT
            !.toolTitle = IF title = NullStr THEN entry.toolTitle ELSE title,
            !.toolStatus = IF tok = "Some(Complete)" THEN "completed" ELSE "error"]
    ELSE entry

(* tool_call_update's update of one entry, lines 93-104 *)
UpdateToolEntry(entry, toolEntryId, title, tok) ==
    IF entry.id = toolEntryId
    THEN [entry EXCEPT
            !.toolTitle = IF title = NullStr THEN entry.toolTitle ELSE title,
            !.toolStatus = IF tok = "Some(Complete)" THEN "completed"
                           ELSE IF tok = "Some(Error)" THEN "error"
                           ELSE entry.toolStatus]
    ELSE entry

(* the permission listener's update of one entry, lines 150-157 *)
PermissionEntry(entry, toolEntryId, preview) ==
    IF entry.id = toolEntryId
    THEN [entry EXCEPT !.commandPreview = preview, !.toolStatus = "pending"]
    ELSE entry

(* resolvePermission's update of one entry, lines 367-371 *)
ApprovedEntry(entry, toolEntryId) ==
    IF entry.id = toolEntryId THEN [entry EXCEPT !.toolStatus = "approved"] ELSE entry

(* FallbackEntry without the test on the content. *)
FallbackEntryAlways(entry, assistantId) ==
    IF entry.id = assistantId THEN [entry EXCEPT !.content = FallbackText] ELSE entry

(* prompt()'s catch: the fallback content, lines 323-333 *)
FallbackEntry(entry, assistantId) ==
    IF entry.id = assistantId /\ Len(entry.content) = 0
    THEN [entry EXCEPT !.content = FallbackText]
    ELSE entry

(* currentThread.find((m) => m.id === assistantId), lines 120-122 *)
FindFirst(t, id) ==
    LET hits == {i \in 1..Len(t) : t[i].id = id}
    IN  IF hits = {} THEN 0 ELSE CHOOSE i \in hits : \A j \in hits : i <= j

Call(c, conv, role, content) == [c |-> c, conv |-> conv, role |-> role, content |-> content]

(* AssistantPersistCalls saving the thought buffer after the content. *)
AssistantPersistCallsWithThoughts(convId, currentThread, assistantId) ==
    IF convId # NoConv /\ assistantId # NoId
    THEN LET i == FindFirst(currentThread, assistantId)
         IN  IF i # 0 /\ Len(currentThread[i].content \o thoughts) > 0
             THEN <<Call("add_conversation_message", convId, "assistant",
                         currentThread[i].content \o thoughts)>>
             ELSE <<>>
    ELSE <<>>

(* turn_complete's persistence of the assistant message, lines 116-130 *)
AssistantPersistCalls(convId, currentThread, assistantId) ==
    IF convId # NoConv /\ assistantId # NoId
    THEN LET i == FindFirst(currentThread, assistantId)
         IN  IF i # 0 /\ Len(currentThread[i].content) > 0
             THEN <<Call("add_conversation_message", convId, "assistant",
                         currentThread[i].content)>>
             ELSE <<>>
    ELSE <<>>

(* loadConversation's rebuilt thread, lines 400-404 *)
RebuiltEntry(m) == Entry(m.id, m.role, m.content, NullStr, NullStr, NullStr)

Rebuilt(msgs) == [i \in 1..Len(msgs) |-> RebuiltEntry(msgs[i])]

----------------------------------------------------------------------------
(* The Conversation Store behind invoke(): a sequence of conversations,    *)
(* conversation c holding the sequence of its stored messages.             *)

RECURSIVE StoredCount(_)
StoredCount(st) == IF st = <<>> THEN 0 ELSE Len(Head(st)) + StoredCount(Tail(st))

StoredMessage(st, conv, role, content) ==
    [id |-> [k |-> "db", n |-> StoredCount(st) + 1],
     conversation_id |-> conv, role |-> role, content |-> content]

(* add_conversation_message as the store applies it; ok = FALSE: the call fails *)
StoreAdd(st, call, ok) ==
    IF ok /\ call.conv \in 1..Len(st)
    THEN [st EXCEPT ![call.conv] =
              Append(@, StoredMessage(st, call.conv, call.role, call.content))]
    ELSE st

RECURSIVE StoreAddAll(_, _, _)
StoreAddAll(st, calls, ok) ==
    IF calls = <<>> THEN st
    ELSE StoreAddAll(StoreAdd(st, Head(calls), ok), Tail(calls), ok)

----------------------------------------------------------------------------
(* The state after the hook is constructed, lines 19-47. *)

NewPrompt == [pc |-> "new", query |-> <<>>, conv |-> NoConv, sent |-> FALSE]

(* What last records of a step: its name, its argument (a prompt, tool    *)
(* call or conversation id, a list of options), the turn an event came     *)
(* from, the outbound calls the step issued, what else the step was given  *)
(* (an event's text, an update's title and status), and whether a turn was *)
(* Active and what the status was when it began.                           *)
StepOn(op, arg, turn, calls, input) ==
    [op |-> op, arg |-> arg, turn |-> turn, calls |-> calls, input |-> input,
     wasActive |-> turnActive, wasStatus |-> status]

Step(op, arg, turn, calls) == StepOn(op, arg, turn, calls, <<>>)

InitWith(st, attempted) ==
    /\ status = "disconnected"
    /\ messages = <<>>
    /\ thread = <<>>
    /\ thoughts = <<>>
    /\ isThinking = FALSE
    /\ turnActive = FALSE
    /\ permissionRequest = NoPermission
    /\ activeAssistantIdRef = NoId
    /\ activeConversationId = NoConv
    /\ conversations = <<>>
    /\ configOptions = <<>>
    /\ threadRef = <<>>
    /\ activeConversationIdRef = NoConv
    /\ pr = [p \in 1..MaxPrompts |-> NewPrompt]
    /\ pending = {}
    /\ store = st
    /\ last = [op |-> "init", arg |-> 0, turn |-> 0, calls |-> <<>>, input |-> <<>>,
               wasActive |-> FALSE, wasStatus |-> "disconnected"]
    /\ curTurn = 0
    /\ cancelledTurns = {}
    /\ loaded = NoConv
    /\ persistCount = [p \in 1..MaxPrompts |-> 0]
    /\ idleTransitions = 0
    /\ nEvents = 0
    /\ startupConnectAttempted = attempted
    /\ startupConnects = 0
    /\ startupEnv = <<>>

(* A first run, the startup reattachment over: the Conversation Store is   *)
(* empty and no agent was configured.                                      *)
Init == InitWith(<<>>, TRUE)

(* A later run: the store holds a conversation of an earlier session, a    *)
(* user message and the assistant's answer.                               *)
SavedStore ==
    LET one == StoreAdd(<<(<<>>)>>, Call("add_conversation_message", 1, "user", <<"q">>), TRUE)
    IN  StoreAdd(one, Call("add_conversation_message", 1, "assistant", <<"a">>), TRUE)

(* The conversations loadConversation() is asked for: the saved one and   *)
(* the one the first prompt creates.                                      *)
LoadIds == {1, 2}

InitSaved == InitWith(SavedStore, TRUE)

(* Active->Idle steps counted: the value of idleTransitions after a step   *)
(* that sets turnActive to false.                                          *)
AfterIdle == IF turnActive THEN idleTransitions + 1 ELSE idleTransitions

(* The value of cancelledTurns after a cancel that takes effect. *)
AfterCancel ==
    IF turnActive /\ curTurn # 0 THEN cancelledTurns \cup {curTurn} ELSE cancelledTurns

(* The prompt() invocations not yet made: they are numbered in call order. *)
NextPrompt == CHOOSE p \in 1..MaxPrompts :
                  /\ pr[p].pc = "new"
                  /\ \A q \in 1..MaxPrompts : pr[q].pc = "new" => p <= q

CanPrompt == \E p \in 1..MaxPrompts : pr[p].pc = "new"

(* The component renders: the refs take the current state, lines 44-47. *)
Render ==
    /\ threadRef # thread \/ activeConversationIdRef # activeConversationId
    /\ threadRef' = thread
    /\ activeConversationIdRef' = activeConversationId
    /\ last' = Step("render", 0, 0, <<>>)
    /\ UNCHANGED <<startupEnv, startupConnectAttempted, startupConnects, conversations,
                   status, configOptions, messages, thread, thoughts, isThinking, turnActive,
                   permissionRequest, activeAssistantIdRef, activeConversationId,
                   pr, pending, store, curTurn, cancelledTurns, loaded, persistCount,
                   idleTransitions, nEvents>>

----------------------------------------------------------------------------
(* prompt(query), lines 267-335. *)

(* Lines 291-310: the user message is persisted when a conversation is    *)
(* known, the two thread entries are appended and the turn is made Active; *)
(* then get_all_items is awaited (line 313). st is the store as the step   *)
(* found or made it, ok whether the fire-and-forget append succeeds, op    *)
(* the name of the step in last.                                          *)
PromptAccept(p, convId, nq, st, ok, op) ==
    LET persist == IF convId # NoConv
                   THEN <<Call("add_conversation_message", convId, "user", nq)>>
                   ELSE <<>>
    IN  /\ store' = StoreAddAll(st, persist, ok)
        /\ thread' = thread \o <<UserEntry(p, nq), AssistantEntry(p)>>
        /\ activeAssistantIdRef' = makeMessageId("assistant", p)
        /\ messages' = <<>>
        /\ thoughts' = <<>>
        /\ turnActive' = TRUE
        /\ isThinking' = TRUE
        /\ pr' = [pr EXCEPT ![p] = [pc |-> "fetching", query |-> nq, conv |-> convId, sent |-> FALSE]]
        /\ last' = Step(op, p, p, persist \o <<Call("get_all_items", NoConv, "", <<>>)>>)
        /\ curTurn' = p
        /\ cancelledTurns' = cancelledTurns
        /\ loaded' = NoConv
        /\ idleTransitions' = 0

(* Lines 268-269: the text is empty after trimming. *)
PromptEmpty(query) ==
    /\ Trim(query) = <<>>
    /\ last' = Step("prompt_empty", 0, 0, <<>>)
    /\ UNCHANGED <<startupEnv, startupConnectAttempted, startupConnects, conversations,
                   status, configOptions, messages, thread, thoughts, isThinking, turnActive,
                   permissionRequest, activeAssistantIdRef, activeConversationId,
                   threadRef, activeConversationIdRef, pr, pending, store,
                   curTurn, cancelledTurns, loaded, persistCount, idleTransitions,
                   nEvents>>

(* Lines 268-283 with no conversation known: create_conversation is awaited. *)
PromptCreate(query) ==
    /\ CanPrompt
    /\ Trim(query) # <<>>
    /\ activeConversationIdRef = NoConv
    /\ pr' = [pr EXCEPT ![NextPrompt] =
                  [pc |-> "creating", query |-> Trim(query), conv |-> NoConv, sent |-> FALSE]]
    /\ last' = Step("prompt_create", NextPrompt, 0,
                    <<Call("create_conversation", NoConv, "", Title(Trim(query)))>>)
    /\ UNCHANGED <<startupEnv, startupConnectAttempted, startupConnects, conversations,
                   status, configOptions, messages, thread, thoughts, isThinking, turnActive,
                   permissionRequest, activeAssistantIdRef, activeConversationId,
                   threadRef, activeConversationIdRef, pending, store,
                   curTurn, cancelledTurns, loaded, persistCount, idleTransitions,
                   nEvents>>

(* Lines 268-313 with a conversation known: no await before line 313. *)
PromptDirect(query, ok) ==
    /\ CanPrompt
    /\ Trim(query) # <<>>
    /\ activeConversationIdRef # NoConv
    /\ PromptAccept(NextPrompt, activeConversationIdRef, Trim(query), store, ok, "prompt")
    /\ UNCHANGED <<startupEnv, startupConnectAttempted, startupConnects, conversations,
                   status, configOptions, permissionRequest, activeConversationId, threadRef,
                   activeConversationIdRef, pending, persistCount, nEvents>>

(* prompt(query) on a non-empty text up to its first await, lines 268-313: *)
(* the branch of line 275 on the conversation the ref names.               *)
PromptCall(query) ==
    IF activeConversationIdRef = NoConv
    THEN PromptCreate(query)
    ELSE PromptDirect(query, TRUE)

(* create_conversation resolved: lines 284-285, then lines 291-313. *)
CreateOk(p, ok) ==
    /\ pr[p].pc = "creating"
    /\ activeConversationId' = Len(store) + 1
    /\ PromptAccept(p, Len(store) + 1, pr[p].query, Append(store, <<>>), ok, "create_ok")
    /\ UNCHANGED <<startupEnv, startupConnectAttempted, startupConnects, conversations,
                   status, configOptions, permissionRequest, threadRef, activeConversationIdRef,
                   pending, persistCount, nEvents>>

(* CreateFail giving the prompt up: the catch returns. *)
CreateFailAborts(p) ==
    /\ pr[p].pc = "creating"
    /\ pr' = [pr EXCEPT ![p].pc = "done"]
    /\ last' = Step("create_fail", p, 0, <<>>)
    /\ UNCHANGED <<startupEnv, startupConnectAttempted, startupConnects, conversations,
                   status, configOptions, messages, thread, thoughts, isThinking,
                   turnActive, permissionRequest, activeAssistantIdRef,
                   activeConversationId, threadRef, activeConversationIdRef, pending,
                   store, curTurn, cancelledTurns, loaded, persistCount,
                   idleTransitions, nEvents>>

(* create_conversation rejected: lines 286-288, then lines 291-313 with    *)
(* convId still null.                                                      *)
CreateFail(p) ==
    /\ pr[p].pc = "creating"
    /\ PromptAccept(p, NoConv, pr[p].query, store, FALSE, "create_fail")
    /\ UNCHANGED <<startupEnv, startupConnectAttempted, startupConnects, conversations,
                   status, configOptions, permissionRequest, activeConversationId, threadRef,
                   activeConversationIdRef, pending, persistCount, nEvents>>

(* get_all_items resolved: acp_prompt is invoked and awaited, lines 313-317. *)
FetchOk(p) ==
    /\ pr[p].pc = "fetching"
    /\ pr' = [pr EXCEPT ![p].pc = "sending", ![p].sent = TRUE]
    /\ last' = Step("fetch_ok", p, p, <<Call("acp_prompt", NoConv, "", pr[p].query)>>)
    /\ UNCHANGED <<startupEnv, startupConnectAttempted, startupConnects, conversations,
                   status, configOptions, messages, thread, thoughts, isThinking, turnActive,
                   permissionRequest, activeAssistantIdRef, activeConversationId,
                   threadRef, activeConversationIdRef, pending, store,
                   curTurn, cancelledTurns, loaded, persistCount, idleTransitions,
                   nEvents>>

(* acp_prompt resolved: prompt() returns. *)
PromptAck(p) ==
    /\ pr[p].pc = "sending"
    /\ pr' = [pr EXCEPT ![p].pc = "done"]
    /\ last' = Step("prompt_ack", p, p, <<>>)
    /\ UNCHANGED <<startupEnv, startupConnectAttempted, startupConnects, conversations,
                   status, configOptions, messages, thread, thoughts, isThinking, turnActive,
                   permissionRequest, activeAssistantIdRef, activeConversationId,
                   threadRef, activeConversationIdRef, pending, store,
                   curTurn, cancelledTurns, loaded, persistCount, idleTransitions,
                   nEvents>>

(* get_all_items or acp_prompt rejected: the catch, lines 318-334. *)
PromptFail(p) ==
    /\ pr[p].pc \in {"fetching", "sending"}
    /\ pr' = [pr EXCEPT ![p].pc = "done"]
    /\ turnActive' = FALSE
    /\ isThinking' = FALSE
    /\ activeAssistantIdRef' = NoId
    /\ thread' = [i \in 1..Len(thread) |->
                      FallbackEntry(thread[i], makeMessageId("assistant", p))]
    /\ idleTransitions' = AfterIdle
    /\ cancelledTurns' = cancelledTurns
    /\ last' = Step("prompt_fail", p, p, <<>>)
    /\ UNCHANGED <<startupEnv, startupConnectAttempted, startupConnects, conversations,
                   status, configOptions, messages, thoughts, permissionRequest,
                   activeConversationId, threadRef, activeConversationIdRef,
                   pending, store, curTurn, loaded, persistCount,
                   nEvents>>

----------------------------------------------------------------------------
(* The acp-update listener, lines 50-139, and the acp-permission-request   *)
(* listener, lines 141-161. The events carry no turn id (src/src/types.ts  *)
(* lines 20-27): t, the prompt whose agent run emitted the event, is known *)
(* to the transport only and is kept in last.turn for the claims to speak  *)
(* of. The agent emits a turn's events once acp_prompt has reached it.     *)

EventTurns == {p \in 1..MaxPrompts : pr[p].sent}

CanDeliver == nEvents < MaxEvents

(* lines 54-69 *)
MessageChunk(t, text) ==
    /\ CanDeliver
    /\ messages' = messages \o text
    /\ isThinking' = FALSE
    /\ thread' = AppendChunk(thread, activeAssistantIdRef, text)
    /\ nEvents' = nEvents + 1
    /\ last' = StepOn("message_chunk", 0, t, <<>>, text)
    /\ UNCHANGED <<startupEnv, startupConnectAttempted, startupConnects, conversations,
                   status, configOptions, thoughts, turnActive, permissionRequest,
                   activeAssistantIdRef, activeConversationId, threadRef,
                   activeConversationIdRef, pr, pending, store, curTurn,
                   cancelledTurns, loaded, persistCount, idleTransitions>>

(* lines 70-73 *)
ThoughtChunk(t, text) ==
    /\ CanDeliver
    /\ thoughts' = thoughts \o text
    /\ isThinking' = TRUE
    /\ nEvents' = nEvents + 1
    /\ last' = StepOn("thought_chunk", 0, t, <<>>, text)
    /\ UNCHANGED <<startupEnv, startupConnectAttempted, startupConnects, conversations,
                   status, configOptions, messages, thread, turnActive, permissionRequest,
                   activeAssistantIdRef, activeConversationId, threadRef,
                   activeConversationIdRef, pr, pending, store, curTurn,
                   cancelledTurns, loaded, persistCount, idleTransitions>>

(* lines 74-87 *)
ToolCall(t, id, title) ==
    /\ CanDeliver
    /\ isThinking' = TRUE
    /\ thread' = Append(thread, ToolCallEntry(id, title))
    /\ nEvents' = nEvents + 1
    /\ last' = Step("tool_call", id, t, <<>>)
    /\ UNCHANGED <<startupEnv, startupConnectAttempted, startupConnects, conversations,
                   status, configOptions, messages, thoughts, turnActive, permissionRequest,
                   activeAssistantIdRef, activeConversationId, threadRef,
                   activeConversationIdRef, pr, pending, store, curTurn,
                   cancelledTurns, loaded, persistCount, idleTransitions>>

(* lines 88-108 *)
ToolCallUpdate(t, id, title, tok) ==
    /\ CanDeliver
    /\ thread' = [i \in 1..Len(thread) |->
                      UpdateToolEntry(thread[i], ToolEntryId(id), title, tok)]
    /\ nEvents' = nEvents + 1
    /\ last' = StepOn("tool_call_update", id, t, <<>>, [title |-> title, status |-> tok])
    /\ UNCHANGED <<startupEnv, startupConnectAttempted, startupConnects, conversations,
                   status, configOptions, messages, thoughts, isThinking, turnActive,
                   permissionRequest, activeAssistantIdRef, activeConversationId,
                   threadRef, activeConversationIdRef, pr, pending, store,
                   curTurn, cancelledTurns, loaded, persistCount, idleTransitions>>

(* lines 109-110 *)
Plan(t) ==
    /\ CanDeliver
    /\ nEvents' = nEvents + 1
    /\ last' = Step("plan", 0, t, <<>>)
    /\ UNCHANGED <<startupEnv, startupConnectAttempted, startupConnects, conversations,
                   status, configOptions, messages, thread, thoughts, isThinking, turnActive,
                   permissionRequest, activeAssistantIdRef, activeConversationId,
                   threadRef, activeConversationIdRef, pr, pending, store,
                   curTurn, cancelledTurns, loaded, persistCount, idleTransitions>>

(* lines 111-134; ok: whether the fire-and-forget append succeeds *)
TurnComplete(t, ok) ==
    LET persist == AssistantPersistCalls(activeConversationIdRef, threadRef,
                                         activeAssistantIdRef)
    IN  /\ CanDeliver
        /\ turnActive' = FALSE
        /\ isThinking' = FALSE
        /\ store' = StoreAddAll(store, persist, ok)
        /\ persistCount' =
               IF persist # <<>>
               THEN [persistCount EXCEPT ![activeAssistantIdRef.n] = @ + 1]
               ELSE persistCount
        /\ activeAssistantIdRef' = NoId
        /\ idleTransitions' = AfterIdle
        /\ cancelledTurns' = cancelledTurns
        /\ nEvents' = nEvents + 1
        /\ last' = Step("turn_complete", 0, t, persist)
        /\ UNCHANGED <<startupEnv, startupConnectAttempted, startupConnects, conversations,
                       status, configOptions, messages, thread, thoughts, permissionRequest,
                       activeConversationId, threadRef, activeConversationIdRef,
                       pr, pending, curTurn, loaded>>

(* lines 135-137 *)
StatusChange(s) ==
    /\ CanDeliver
    /\ status' = s
    /\ nEvents' = nEvents + 1
    /\ last' = Step("status_change", 0, 0, <<>>)
    /\ UNCHANGED <<startupEnv, startupConnectAttempted, startupConnects, conversations,
                   configOptions, messages, thread, thoughts, isThinking, turnActive,
                   permissionRequest, activeAssistantIdRef, activeConversationId,
                   threadRef, activeConversationIdRef, pr, pending, store,
                   curTurn, cancelledTurns, loaded, persistCount, idleTransitions>>

(* PermissionRequestEvent recording the request only when a ToolCall of  *)
(* the thread has its id.                                                  *)
PermissionRequestEventIfKnown(t, requestId, preview) ==
    /\ CanDeliver
    /\ permissionRequest' =
           IF \E i \in 1..Len(thread) : thread[i].id = ToolEntryId(requestId)
           THEN [request_id |-> requestId, command_preview |-> preview]
           ELSE permissionRequest
    /\ thread' = [i \in 1..Len(thread) |->
                      PermissionEntry(thread[i], ToolEntryId(requestId), preview)]
    /\ nEvents' = nEvents + 1
    /\ last' = Step("permission_request", requestId, t, <<>>)
    /\ UNCHANGED <<startupEnv, startupConnectAttempted, startupConnects, conversations,
                   status, configOptions, messages, thoughts, isThinking, turnActive,
                   activeAssistantIdRef, activeConversationId, threadRef,
                   activeConversationIdRef, pr, pending, store, curTurn,
                   cancelledTurns, loaded, persistCount, idleTransitions>>

(* lines 141-161 *)
PermissionRequestEvent(t, requestId, preview) ==
    /\ CanDeliver
    /\ permissionRequest' = [request_id |-> requestId, command_preview |-> preview]
    /\ thread' = [i \in 1..Len(thread) |->
                      PermissionEntry(thread[i], ToolEntryId(requestId), preview)]
    /\ nEvents' = nEvents + 1
    /\ last' = Step("permission_request", requestId, t, <<>>)
    /\ UNCHANGED <<startupEnv, startupConnectAttempted, startupConnects, conversations,
                   status, configOptions, messages, thoughts, isThinking, turnActive,
                   activeAssistantIdRef, activeConversationId, threadRef,
                   activeConversationIdRef, pr, pending, store, curTurn,
                   cancelledTurns, loaded, persistCount, idleTransitions>>

----------------------------------------------------------------------------
(* The operations that await one outbound call: pending holds the calls    *)
(* not yet settled.                                                        *)

Op(op, arg) == [op |-> op, arg |-> arg]

(* The awaits of the startup reattachment, lines 192-248; its connect()   *)
(* takes slot 0.                                                           *)
StartupPending ==
    {Op(o, 0) : o \in {"startup_status", "startup_opts", "startup_config",
                       "startup_env", "connect", "connect_opts"}}

(* The operations the user starts are bounded, those of the startup are not. *)
CanCall(o) == o \notin pending /\ Cardinality(pending \ StartupPending) < MaxInFlight

(* cancel(), line 339: acp_cancel is invoked and awaited *)
CancelCall ==
    /\ CanCall(Op("cancel", 0))
    /\ pending' = pending \cup {Op("cancel", 0)}
    /\ last' = Step("cancel", 0, 0, <<Call("acp_cancel", NoConv, "", <<>>)>>)
    /\ UNCHANGED <<startupEnv, startupConnectAttempted, startupConnects, conversations,
                   status, configOptions, messages, thread, thoughts, isThinking, turnActive,
                   permissionRequest, activeAssistantIdRef, activeConversationId,
                   threadRef, activeConversationIdRef, pr, store, curTurn,
                   cancelledTurns, loaded, persistCount, idleTransitions, nEvents>>

(* CancelOk without line 342: the active-assistant pointer is kept. *)
CancelOkKeepsPointer ==
    /\ Op("cancel", 0) \in pending
    /\ pending' = pending \ {Op("cancel", 0)}
    /\ turnActive' = FALSE
    /\ isThinking' = FALSE
    /\ idleTransitions' = AfterIdle
    /\ cancelledTurns' = AfterCancel
    /\ last' = Step("cancel_ok", 0, 0, <<>>)
    /\ UNCHANGED <<startupEnv, startupConnectAttempted, startupConnects, conversations,
                   status, configOptions, messages, thread, thoughts, permissionRequest,
                   activeAssistantIdRef, activeConversationId, threadRef,
                   activeConversationIdRef, pr, store, curTurn, loaded,
                   persistCount, nEvents>>

(* acp_cancel resolved: lines 340-342 *)
CancelOk ==
    /\ Op("cancel", 0) \in pending
    /\ pending' = pending \ {Op("cancel", 0)}
    /\ turnActive' = FALSE
    /\ isThinking' = FALSE
    /\ activeAssistantIdRef' = NoId
    /\ idleTransitions' = AfterIdle
    /\ cancelledTurns' = AfterCancel
    /\ last' = Step("cancel_ok", 0, 0, <<>>)
    /\ UNCHANGED <<startupEnv, startupConnectAttempted, startupConnects, conversations,
                   status, configOptions, messages, thread, thoughts, permissionRequest,
                   activeConversationId, threadRef, activeConversationIdRef, pr,
                   store, curTurn, loaded, persistCount, nEvents>>

(* CancelFail with the state set before the await: the turn is made Idle *)
(* whatever the outcome of acp_cancel.                                     *)
CancelFailOptimistic ==
    /\ Op("cancel", 0) \in pending
    /\ pending' = pending \ {Op("cancel", 0)}
    /\ turnActive' = FALSE
    /\ isThinking' = FALSE
    /\ activeAssistantIdRef' = NoId
    /\ idleTransitions' = AfterIdle
    /\ cancelledTurns' = AfterCancel
    /\ last' = Step("cancel_fail", 0, 0, <<>>)
    /\ UNCHANGED <<startupEnv, startupConnectAttempted, startupConnects, conversations,
                   status, configOptions, messages, thread, thoughts, permissionRequest,
                   activeConversationId, threadRef, activeConversationIdRef, pr,
                   store, curTurn, loaded, persistCount, nEvents>>

(* acp_cancel rejected: the catch, lines 343-345 *)
CancelFail ==
    /\ Op("cancel", 0) \in pending
    /\ pending' = pending \ {Op("cancel", 0)}
    /\ last' = Step("cancel_fail", 0, 0, <<>>)
    /\ UNCHANGED <<startupEnv, startupConnectAttempted, startupConnects, conversations,
                   status, configOptions, messages, thread, thoughts, isThinking, turnActive,
                   permissionRequest, activeAssistantIdRef, activeConversationId,
                   threadRef, activeConversationIdRef, pr, store, curTurn,
                   cancelledTurns, loaded, persistCount, idleTransitions, nEvents>>

(* loadConversation(conversationId), lines 395-398: get_conversation_messages *)
LoadCall(c) ==
    /\ c \in 1..Len(store)
    /\ CanCall(Op("load", c))
    /\ pending' = pending \cup {Op("load", c)}
    /\ last' = Step("load", c, 0, <<Call("get_conversation_messages", c, "", <<>>)>>)
    /\ UNCHANGED <<startupEnv, startupConnectAttempted, startupConnects, conversations,
                   status, configOptions, messages, thread, thoughts, isThinking, turnActive,
                   permissionRequest, activeAssistantIdRef, activeConversationId,
                   threadRef, activeConversationIdRef, pr, store, curTurn,
                   cancelledTurns, loaded, persistCount, idleTransitions, nEvents>>

(* LoadOk merging: the stored messages are appended to the thread. *)
LoadOkMerge(c) ==
    /\ Op("load", c) \in pending
    /\ pending' = pending \ {Op("load", c)}
    /\ thread' = thread \o Rebuilt(store[c])
    /\ activeConversationId' = c
    /\ messages' = <<>>
    /\ thoughts' = <<>>
    /\ turnActive' = FALSE
    /\ isThinking' = FALSE
    /\ activeAssistantIdRef' = NoId
    /\ idleTransitions' = AfterIdle
    /\ cancelledTurns' = cancelledTurns
    /\ loaded' = c
    /\ last' = Step("load_ok", c, 0, <<>>)
    /\ UNCHANGED <<startupEnv, startupConnectAttempted, startupConnects, conversations,
                   status, configOptions, permissionRequest, threadRef, activeConversationIdRef,
                   pr, store, curTurn, persistCount, nEvents>>

(* get_conversation_messages resolved: lines 400-412 *)
LoadOk(c) ==
    /\ Op("load", c) \in pending
    /\ pending' = pending \ {Op("load", c)}
    /\ thread' = Rebuilt(store[c])
    /\ activeConversationId' = c
    /\ messages' = <<>>
    /\ thoughts' = <<>>
    /\ turnActive' = FALSE
    /\ isThinking' = FALSE
    /\ activeAssistantIdRef' = NoId
    /\ idleTransitions' = AfterIdle
    /\ cancelledTurns' = cancelledTurns
    /\ loaded' = c
    /\ last' = Step("load_ok", c, 0, <<>>)
    /\ UNCHANGED <<startupEnv, startupConnectAttempted, startupConnects, conversations,
                   status, configOptions, permissionRequest, threadRef, activeConversationIdRef,
                   pr, store, curTurn, persistCount, nEvents>>

(* get_conversation_messages rejected: the catch, lines 413-415 *)
LoadFail(c) ==
    /\ Op("load", c) \in pending
    /\ pending' = pending \ {Op("load", c)}
    /\ last' = Step("load_fail", c, 0, <<>>)
    /\ UNCHANGED <<startupEnv, startupConnectAttempted, startupConnects, conversations,
                   status, configOptions, messages, thread, thoughts, isThinking, turnActive,
                   permissionRequest, activeAssistantIdRef, activeConversationId,
                   threadRef, activeConversationIdRef, pr, store, curTurn,
                   cancelledTurns, loaded, persistCount, idleTransitions, nEvents>>

----------------------------------------------------------------------------
(* The connection lifecycle: connect(), lines 177-190, the config-options  *)
(* listener, lines 163-168, and disconnect(), lines 250-265.               *)

(* The connect() invocations in flight are told apart by a slot number. *)
ConnectSlots == 1..MaxInFlight

FreeSlot(n) == Op("connect", n) \notin pending /\ Op("connect_opts", n) \notin pending

(* Lines 178-180: the status is set, then acp_connect is invoked and awaited. *)
ConnectCall(n) ==
    /\ FreeSlot(n)
    /\ CanCall(Op("connect", n))
    /\ status' = "connecting"
    /\ pending' = pending \cup {Op("connect", n)}
    /\ last' = Step("connect", n, 0, <<Call("acp_connect", NoConv, "", <<>>)>>)
    /\ UNCHANGED <<startupEnv, startupConnectAttempted, startupConnects, conversations,
                   configOptions, messages, thread, thoughts, isThinking, turnActive,
                   permissionRequest, activeAssistantIdRef, activeConversationId,
                   threadRef, activeConversationIdRef, pr, store, curTurn,
                   cancelledTurns, loaded, persistCount, idleTransitions, nEvents>>

(* acp_connect resolved: acp_get_config_options is invoked, lines 182-184. *)
ConnectOk(n) ==
    /\ Op("connect", n) \in pending
    /\ pending' = (pending \ {Op("connect", n)}) \cup {Op("connect_opts", n)}
    /\ last' = Step("connect_ok", n, 0, <<Call("acp_get_config_options", NoConv, "", <<>>)>>)
    /\ UNCHANGED <<startupEnv, startupConnectAttempted, startupConnects, conversations,
                   status, configOptions, messages, thread, thoughts, isThinking,
                   turnActive, permissionRequest, activeAssistantIdRef,
                   activeConversationId, threadRef, activeConversationIdRef, pr, store,
                   curTurn, cancelledTurns, loaded, persistCount, idleTransitions,
                   nEvents>>

(* ConnectFail retrying: the catch invokes acp_connect again. *)
ConnectFailRetries(n) ==
    /\ Op("connect", n) \in pending
    /\ pending' = pending
    /\ status' = "connecting"
    /\ last' = Step("connect_fail", n, 0, <<Call("acp_connect", NoConv, "", <<>>)>>)
    /\ UNCHANGED <<startupEnv, startupConnectAttempted, startupConnects, conversations,
                   configOptions, messages, thread, thoughts, isThinking, turnActive,
                   permissionRequest, activeAssistantIdRef, activeConversationId,
                   threadRef, activeConversationIdRef, pr, store, curTurn,
                   cancelledTurns, loaded, persistCount, idleTransitions, nEvents>>

(* acp_connect rejected: the catch, lines 186-189. *)
ConnectFail(n) ==
    /\ Op("connect", n) \in pending
    /\ pending' = pending \ {Op("connect", n)}
    /\ status' = "error"
    /\ last' = Step("connect_fail", n, 0, <<>>)
    /\ UNCHANGED <<startupEnv, startupConnectAttempted, startupConnects, conversations,
                   configOptions, messages, thread, thoughts, isThinking, turnActive,
                   permissionRequest, activeAssistantIdRef, activeConversationId,
                   threadRef, activeConversationIdRef, pr, store, curTurn,
                   cancelledTurns, loaded, persistCount, idleTransitions, nEvents>>

(* ConnectOptsOk setting the status itself once the options are there. *)
ConnectOptsOkSetsConnected(n, opts) ==
    /\ Op("connect_opts", n) \in pending
    /\ pending' = pending \ {Op("connect_opts", n)}
    /\ configOptions' = opts
    /\ status' = "connected"
    /\ last' = Step("connect_done", opts, 0, <<>>)
    /\ UNCHANGED <<startupEnv, startupConnectAttempted, startupConnects, conversations,
                   messages, thread, thoughts, isThinking, turnActive,
                   permissionRequest, activeAssistantIdRef, activeConversationId,
                   threadRef, activeConversationIdRef, pr, store, curTurn,
                   cancelledTurns, loaded, persistCount, idleTransitions, nEvents>>

(* acp_get_config_options resolved with opts: line 185. *)
ConnectOptsOk(n, opts) ==
    /\ Op("connect_opts", n) \in pending
    /\ pending' = pending \ {Op("connect_opts", n)}
    /\ configOptions' = opts
    /\ last' = Step("connect_done", opts, 0, <<>>)
    /\ UNCHANGED <<startupEnv, startupConnectAttempted, startupConnects, conversations,
                   status, messages, thread, thoughts, isThinking, turnActive,
                   permissionRequest, activeAssistantIdRef, activeConversationId,
                   threadRef, activeConversationIdRef, pr, store, curTurn,
                   cancelledTurns, loaded, persistCount, idleTransitions, nEvents>>

(* acp_get_config_options rejected: the same catch, lines 186-189. *)
ConnectOptsFail(n) ==
    /\ Op("connect_opts", n) \in pending
    /\ pending' = pending \ {Op("connect_opts", n)}
    /\ status' = "error"
    /\ last' = Step("connect_opts_fail", n, 0, <<>>)
    /\ UNCHANGED <<startupEnv, startupConnectAttempted, startupConnects, conversations,
                   configOptions, messages, thread, thoughts, isThinking, turnActive,
                   permissionRequest, activeAssistantIdRef, activeConversationId,
                   threadRef, activeConversationIdRef, pr, store, curTurn,
                   cancelledTurns, loaded, persistCount, idleTransitions, nEvents>>

(* The acp-config-options listener, lines 163-168. *)
ConfigOptionsEvent(opts) ==
    /\ CanDeliver
    /\ configOptions' = opts
    /\ nEvents' = nEvents + 1
    /\ last' = Step("config_options", 0, 0, <<>>)
    /\ UNCHANGED <<startupEnv, startupConnectAttempted, startupConnects, conversations,
                   status, messages, thread, thoughts, isThinking, turnActive,
                   permissionRequest, activeAssistantIdRef, activeConversationId,
                   threadRef, activeConversationIdRef, pr, pending, store,
                   curTurn, cancelledTurns, loaded, persistCount, idleTransitions>>

(* disconnect(), line 252: acp_disconnect is invoked and awaited. *)
DisconnectCall ==
    /\ CanCall(Op("disconnect", 0))
    /\ pending' = pending \cup {Op("disconnect", 0)}
    /\ last' = Step("disconnect", 0, 0, <<Call("acp_disconnect", NoConv, "", <<>>)>>)
    /\ UNCHANGED <<startupEnv, startupConnectAttempted, startupConnects, conversations,
                   status, configOptions, messages, thread, thoughts, isThinking,
                   turnActive, permissionRequest, activeAssistantIdRef,
                   activeConversationId, threadRef, activeConversationIdRef, pr, store,
                   curTurn, cancelledTurns, loaded, persistCount, idleTransitions,
                   nEvents>>

(* DisconnectOk with line 259 lost: the conversation stays active. *)
DisconnectOkKeepsConversation ==
    /\ Op("disconnect", 0) \in pending
    /\ pending' = pending \ {Op("disconnect", 0)}
    /\ status' = "disconnected"
    /\ thread' = <<>>
    /\ messages' = <<>>
    /\ thoughts' = <<>>
    /\ turnActive' = FALSE
    /\ isThinking' = FALSE
    /\ configOptions' = <<>>
    /\ activeAssistantIdRef' = NoId
    /\ idleTransitions' = AfterIdle
    /\ loaded' = NoConv
    /\ last' = Step("disconnect_ok", 0, 0, <<>>)
    /\ UNCHANGED <<startupEnv, startupConnectAttempted, startupConnects, conversations,
                   permissionRequest, activeConversationId, threadRef,
                   activeConversationIdRef, pr, store, curTurn, cancelledTurns,
                   persistCount, nEvents>>

(* acp_disconnect resolved: lines 253-261. *)
DisconnectOk ==
    /\ Op("disconnect", 0) \in pending
    /\ pending' = pending \ {Op("disconnect", 0)}
    /\ status' = "disconnected"
    /\ thread' = <<>>
    /\ messages' = <<>>
    /\ thoughts' = <<>>
    /\ turnActive' = FALSE
    /\ isThinking' = FALSE
    /\ activeConversationId' = NoConv
    /\ configOptions' = <<>>
    /\ activeAssistantIdRef' = NoId
    /\ idleTransitions' = AfterIdle
    /\ loaded' = NoConv
    /\ last' = Step("disconnect_ok", 0, 0, <<>>)
    /\ UNCHANGED <<startupEnv, startupConnectAttempted, startupConnects, conversations,
                   permissionRequest, threadRef, activeConversationIdRef, pr, store,
                   curTurn, cancelledTurns, persistCount, nEvents>>

(* acp_disconnect rejected: the catch, lines 262-264. *)
DisconnectFail ==
    /\ Op("disconnect", 0) \in pending
    /\ pending' = pending \ {Op("disconnect", 0)}
    /\ last' = Step("disconnect_fail", 0, 0, <<>>)
    /\ UNCHANGED <<startupEnv, startupConnectAttempted, startupConnects, conversations,
                   status, configOptions, messages, thread, thoughts, isThinking,
                   turnActive, permissionRequest, activeAssistantIdRef,
                   activeConversationId, threadRef, activeConversationIdRef, pr, store,
                   curTurn, cancelledTurns, loaded, persistCount, idleTransitions,
                   nEvents>>

----------------------------------------------------------------------------
(* The number of prompt() invocations made with a non-empty text. *)
PromptsMade == Cardinality({p \in 1..MaxPrompts : pr[p].pc # "new"})

(* The steps of prompt() with every call it awaits succeeding, for at most *)
(* n prompts.                                                              *)
PromptAcked(n) ==
    \/ \E q \in Queries : PromptsMade < n /\ PromptCreate(q)
    \/ \E q \in Queries : PromptsMade < n /\ PromptDirect(q, TRUE)
    \/ \E p \in 1..MaxPrompts : CreateOk(p, TRUE)
    \/ \E p \in 1..MaxPrompts : FetchOk(p)
    \/ \E p \in 1..MaxPrompts : PromptAck(p)

(* The steps of prompt() on an empty text or with a call that fails. *)
PromptFailing ==
    \/ \E q \in Queries : PromptEmpty(q)
    \/ \E p \in 1..MaxPrompts : CreateFail(p)
    \/ \E p \in 1..MaxPrompts : PromptFail(p)

(* The turn engine: prompt() and cancel() under the text and completion of *)
(* a turn, with the renders falling anywhere between them.                 *)
Next ==
    \/ Render
    \/ PromptAcked(MaxPrompts)
    \/ PromptFailing
    \/ \E t \in EventTurns : MessageChunk(t, <<"a">>)
    \/ \E t \in EventTurns : TurnComplete(t, TRUE)
    \/ CancelCall
    \/ CancelOk
    \/ CancelFail

Spec == Init /\ [][Next]_vars

(* Cancellation under every kind of event a turn emits. *)
NextCancel ==
    \/ Render
    \/ \E q \in Queries : PromptsMade < PromptBudget /\ PromptCall(q)
    \/ \E p \in 1..MaxPrompts : CreateOk(p, TRUE)
    \/ \E p \in 1..MaxPrompts : FetchOk(p)
    \/ \E p \in 1..MaxPrompts : PromptAck(p)
    \/ \E t \in EventTurns : MessageChunk(t, <<"a">>)
    \/ \E t \in EventTurns, text \in ThoughtTexts : ThoughtChunk(t, text)
    \/ \E t \in EventTurns : ToolCall(t, 1, "T")
    \/ \E t \in EventTurns : ToolCallUpdate(t, 1, NullStr, "Some(Complete)")
    \/ \E t \in EventTurns : TurnComplete(t, TRUE)
    \/ CancelCall
    \/ CancelOk
    \/ CancelFail

SpecCancel == Init /\ [][NextCancel]_vars

(* The conversation binder: loadConversation() while a turn runs. *)
NextLoad ==
    \/ Render
    \/ PromptAcked(PromptBudget)
    \/ \E t \in EventTurns : MessageChunk(t, <<"a">>)
    \/ \E t \in EventTurns : ToolCall(t, 1, "T")
    \/ \E t \in EventTurns : TurnComplete(t, TRUE)
    \/ \E c \in LoadIds : LoadCall(c)
    \/ \E c \in LoadIds : LoadOk(c)
    \/ \E c \in LoadIds : LoadFail(c)

SpecLoad == InitSaved /\ [][NextLoad]_vars

(* The tool-call lifecycle: every event of both listeners within a turn. *)
NextTool ==
    \/ \E q \in Queries : PromptsMade < PromptBudget /\ PromptCreate(q)
    \/ \E p \in 1..MaxPrompts : CreateFail(p)
    \/ \E p \in 1..MaxPrompts : FetchOk(p)
    \/ \E p \in 1..MaxPrompts : PromptAck(p)
    \/ \E t \in EventTurns, text \in Texts : MessageChunk(t, text)
    \/ \E t \in EventTurns, id \in ToolIds, title \in Titles : ToolCall(t, id, title)
    \/ \E t \in EventTurns, id \in ToolIds, title \in Titles, tok \in StatusTokens :
           ToolCallUpdate(t, id, title, tok)
    \/ \E t \in EventTurns, id \in ToolIds, preview \in Previews :
           PermissionRequestEvent(t, id, preview)
    \/ \E t \in EventTurns : Plan(t)
    \/ \E t \in EventTurns : TurnComplete(t, TRUE)
    \/ \E s \in AgentStatuses : StatusChange(s)

SpecTool == Init /\ [][NextTool]_vars

----------------------------------------------------------------------------
(* The startup reattachment, connectOnStartup, lines 192-248.  The hook   *)
(* is mounted and the effect has not run yet.                              *)

InitMounted == InitWith(<<>>, FALSE)

(* The saved configuration's binary_path, line 213. *)
BinaryPaths == {<<" ">>, <<"b">>}

(* Lines 239-240: the status is set and connect(config) entered, which     *)
(* sets it again and invokes acp_connect, lines 179-180.                   *)
(* StartupEffect without the test of the ref: every run of the effect     *)
(* enters connectOnStartup.                                                *)
StartupEffectEveryTime ==
    /\ startupConnectAttempted' = TRUE
    /\ pending' = pending \cup {Op("startup_status", 0)}
    /\ last' = Step("startup", 0, 0, <<Call("acp_get_status", NoConv, "", <<>>)>>)
    /\ UNCHANGED <<startupEnv, startupConnects, conversations, status, configOptions, messages,
                   thread, thoughts,
                   isThinking, turnActive, permissionRequest, activeAssistantIdRef,
                   activeConversationId, threadRef, activeConversationIdRef, pr,
                   store, curTurn, cancelledTurns, loaded, persistCount,
                   idleTransitions, nEvents>>

(* The effect of lines 192-248 runs: once startupConnectAttempted is set   *)
(* it returns at once (line 193), else it sets the ref and enters          *)
(* connectOnStartup, which awaits acp_get_status (line 198).               *)
StartupEffect ==
    /\ IF startupConnectAttempted
       THEN /\ last' = Step("startup_skip", 0, 0, <<>>)
            /\ UNCHANGED <<startupConnectAttempted, pending>>
       ELSE /\ startupConnectAttempted' = TRUE
            /\ pending' = pending \cup {Op("startup_status", 0)}
            /\ last' = Step("startup", 0, 0, <<Call("acp_get_status", NoConv, "", <<>>)>>)
    /\ UNCHANGED <<startupEnv, startupConnects, conversations, status, configOptions, messages,
                   thread, thoughts,
                   isThinking, turnActive, permissionRequest, activeAssistantIdRef,
                   activeConversationId, threadRef, activeConversationIdRef, pr,
                   store, curTurn, cancelledTurns, loaded, persistCount,
                   idleTransitions, nEvents>>

StartupConnect(from, input) ==
    /\ status' = "connecting"
    /\ startupConnects' = startupConnects + 1
    /\ pending' = (pending \ {Op(from, 0)}) \cup {Op("connect", 0)}
    /\ last' = StepOn("startup_connect", 0, 0,
                      <<Call("acp_connect", NoConv, "", startupEnv')>>, input)

(* acp_get_status resolved with s: lines 198-211. *)
StartupStatus(s) ==
    /\ Op("startup_status", 0) \in pending
    /\ status' = s
    /\ pending' = (pending \ {Op("startup_status", 0)}) \cup
                  (IF s = "connected" THEN {Op("startup_opts", 0)}
                   ELSE IF s = "connecting" THEN {}
                   ELSE {Op("startup_config", 0)})
    /\ last' = Step("startup_status", 0, 0,
                    IF s = "connected"
                    THEN <<Call("acp_get_config_options", NoConv, "", <<>>)>>
                    ELSE IF s = "connecting" THEN <<>>
                    ELSE <<Call("get_agent_config", NoConv, "", <<>>)>>)
    /\ UNCHANGED <<startupEnv, startupConnectAttempted, startupConnects, conversations,
                   configOptions, messages, thread, thoughts, isThinking, turnActive,
                   permissionRequest, activeAssistantIdRef, activeConversationId,
                   threadRef, activeConversationIdRef, pr, store, curTurn,
                   cancelledTurns, loaded, persistCount, idleTransitions, nEvents>>

(* acp_get_config_options resolved with opts: lines 203-208. *)
StartupOptsOk(opts) ==
    /\ Op("startup_opts", 0) \in pending
    /\ pending' = pending \ {Op("startup_opts", 0)}
    /\ configOptions' = opts
    /\ last' = Step("startup_opts_ok", opts, 0, <<>>)
    /\ UNCHANGED <<startupEnv, startupConnectAttempted, startupConnects, conversations,
                   status, messages, thread, thoughts, isThinking, turnActive,
                   permissionRequest, activeAssistantIdRef, activeConversationId,
                   threadRef, activeConversationIdRef, pr, store, curTurn,
                   cancelledTurns, loaded, persistCount, idleTransitions, nEvents>>

(* StartupConfig connecting whatever the binary path. *)
StartupConfigAnyPath(binaryPath, hasAgentId) ==
    /\ Op("startup_config", 0) \in pending
    /\ startupEnv' = <<>>
    /\ StartupConnect("startup_config", binaryPath)
    /\ UNCHANGED <<startupConnectAttempted, conversations,
                   configOptions, messages, thread, thoughts, isThinking, turnActive,
                   permissionRequest, activeAssistantIdRef, activeConversationId,
                   threadRef, activeConversationIdRef, pr, store, curTurn,
                   cancelledTurns, loaded, persistCount, idleTransitions, nEvents>>

(* The per-agent pairs with a value, as `${k}=${v}`, joined by commas:      *)
(* lines 225-228.                                                          *)
RECURSIVE JoinPairs(_)
JoinPairs(pairs) ==
    IF pairs = <<>> THEN <<>>
    ELSE LET one == Head(pairs)[1] \o <<"=">> \o Head(pairs)[2]
         IN  IF Tail(pairs) = <<>> THEN one
             ELSE one \o <<",">> \o JoinPairs(Tail(pairs))

(* MergeEnv keeping the pairs without a value. *)
MergeEnvKeepsEmpty(env, pairs) ==
    LET agentEnv == JoinPairs(pairs)
    IN  IF Len(pairs) > 0 /\ agentEnv # <<>>
        THEN IF env # <<>> THEN env \o <<",">> \o agentEnv ELSE agentEnv
        ELSE env

(* config.env after the merge of the per-agent pairs, lines 224-233. *)
MergeEnv(env, pairs) ==
    LET agentEnv == JoinPairs(SelectSeq(pairs, LAMBDA kv : kv[2] # <<>>))
    IN  IF Len(pairs) > 0 /\ agentEnv # <<>>
        THEN IF env # <<>> THEN env \o <<",">> \o agentEnv ELSE agentEnv
        ELSE env

(* get_agent_config resolved with a configuration of this binary path,     *)
(* agent id and environment string: lines 211-240.  Without a binary path  *)
(* the startup ends; with an agent id get_agent_env is awaited first.      *)
StartupConfigWith(binaryPath, hasAgentId, env) ==
    /\ Op("startup_config", 0) \in pending
    /\ IF Trim(binaryPath) = <<>>
       THEN /\ pending' = pending \ {Op("startup_config", 0)}
            /\ last' = StepOn("startup_config", 0, 0, <<>>, binaryPath)
            /\ status' = status
            /\ startupConnects' = startupConnects
            /\ startupEnv' = startupEnv
       ELSE IF hasAgentId
       THEN /\ pending' = (pending \ {Op("startup_config", 0)}) \cup {Op("startup_env", 0)}
            /\ last' = StepOn("startup_config", 0, 0,
                              <<Call("get_agent_env", NoConv, "", <<>>)>>, binaryPath)
            /\ status' = status
            /\ startupConnects' = startupConnects
            /\ startupEnv' = env
       ELSE /\ startupEnv' = env
            /\ StartupConnect("startup_config", binaryPath)
    /\ UNCHANGED <<startupConnectAttempted, conversations,
                   configOptions, messages, thread, thoughts, isThinking, turnActive,
                   permissionRequest, activeAssistantIdRef, activeConversationId,
                   threadRef, activeConversationIdRef, pr, store, curTurn,
                   cancelledTurns, loaded, persistCount, idleTransitions, nEvents>>

(* A saved configuration without an environment string. *)
StartupConfig(binaryPath, hasAgentId) == StartupConfigWith(binaryPath, hasAgentId, <<>>)

(* get_agent_env settled: resolved with pairs (ok), lines 221-233, or      *)
(* rejected (the inner catch, lines 234-236); lines 239-240 follow either  *)
(* way.                                                                    *)
StartupEnvWith(pairs, ok) ==
    /\ Op("startup_env", 0) \in pending
    /\ startupEnv' = IF ok THEN MergeEnv(startupEnv, pairs) ELSE startupEnv
    /\ StartupConnect("startup_env", [saved |-> startupEnv, pairs |-> pairs, ok |-> ok])
    /\ UNCHANGED <<startupConnectAttempted, conversations,
                   configOptions, messages, thread, thoughts, isThinking, turnActive,
                   permissionRequest, activeAssistantIdRef, activeConversationId,
                   threadRef, activeConversationIdRef, pr, store, curTurn,
                   cancelledTurns, loaded, persistCount, idleTransitions, nEvents>>

(* No per-agent pair is stored. *)
StartupEnv == StartupEnvWith(<<>>, TRUE)

(* acp_get_status, acp_get_config_options or get_agent_config rejected:    *)
(* the catch, lines 241-244.                                               *)
StartupFail(from) ==
    /\ Op(from, 0) \in pending
    /\ pending' = pending \ {Op(from, 0)}
    /\ status' = "error"
    /\ last' = Step("startup_fail", 0, 0, <<>>)
    /\ UNCHANGED <<startupEnv, startupConnectAttempted, startupConnects, conversations,
                   configOptions, messages, thread, thoughts, isThinking, turnActive,
                   permissionRequest, activeAssistantIdRef, activeConversationId,
                   threadRef, activeConversationIdRef, pr, store, curTurn,
                   cancelledTurns, loaded, persistCount, idleTransitions, nEvents>>

(* The connection lifecycle from the mount on: the startup reattachment,   *)
(* connect() and disconnect() under the events of the transport, with a    *)
(* turn for disconnect() to clear.  The effect runs in the commit of the   *)
(* mount, before any call of the user and any event.                       *)
NextConn ==
    \/ ~startupConnectAttempted /\ StartupEffect
    \/ \E q \in {<<"q">>} : startupConnectAttempted /\ PromptsMade < PromptBudget /\ PromptCreate(q)
    \/ \E p \in 1..MaxPrompts : CreateOk(p, TRUE)
    \/ \E s \in AgentStatuses : StartupStatus(s)
    \/ \E opts \in OptionLists : StartupOptsOk(opts)
    \/ \E b \in BinaryPaths, a \in BOOLEAN : StartupConfig(b, a)
    \/ StartupEnv
    \/ \E from \in {"startup_status", "startup_opts", "startup_config"} : StartupFail(from)
    \/ \E n \in ConnectSlots : startupConnectAttempted /\ ConnectCall(n)
    \/ \E n \in 0..MaxInFlight : ConnectOk(n)
    \/ \E n \in 0..MaxInFlight : ConnectFail(n)
    \/ \E n \in 0..MaxInFlight, opts \in OptionLists : ConnectOptsOk(n, opts)
    \/ \E n \in 0..MaxInFlight : ConnectOptsFail(n)
    \/ \E s \in AgentStatuses : startupConnectAttempted /\ StatusChange(s)
    \/ \E opts \in OptionLists : startupConnectAttempted /\ ConfigOptionsEvent(opts)
    \/ startupConnectAttempted /\ DisconnectCall
    \/ DisconnectOk
    \/ DisconnectFail

SpecConn == InitMounted /\ [][NextConn]_vars

(* The startup reattachment alone, with the connect() it ends in, the      *)
(* transport's status events and the user's own connect().                 *)
NextStartup ==
    \/ StartupEffect
    \/ \E s \in AgentStatuses : StartupStatus(s)
    \/ \E opts \in OptionLists : StartupOptsOk(opts)
    \/ \E b \in BinaryPaths, a \in BOOLEAN : StartupConfig(b, a)
    \/ StartupEnv
    \/ \E from \in {"startup_status", "startup_opts", "startup_config"} : StartupFail(from)
    \/ \E n \in ConnectSlots : ConnectCall(n)
    \/ \E n \in 0..MaxInFlight : ConnectOk(n)
    \/ \E n \in 0..MaxInFlight : ConnectFail(n)
    \/ \E n \in 0..MaxInFlight, opts \in OptionLists : ConnectOptsOk(n, opts)
    \/ \E n \in 0..MaxInFlight : ConnectOptsFail(n)
    \/ \E s \in {"connected"} : StatusChange(s)

SpecStartup == InitMounted /\ [][NextStartup]_vars

(* The saved environment strings and the per-agent pairs of the store:     *)
(* none, one without a value, one with, one of each, two with values.      *)
SavedEnvs == {<<>>, <<"A", "=", "1">>}

PairLists ==
    {<<>>,
     << <<(<<"K">>), <<>>>> >>,
     << <<(<<"K">>), <<"v">>>> >>,
     << <<(<<"K">>), <<>>>>, <<(<<"L">>), <<"w">>>> >>,
     << <<(<<"K">>), <<"v">>>>, <<(<<"L">>), <<"w">>>> >>}

(* The startup of a process whose agent is not running, with a saved       *)
(* configuration of either environment and any of the stored pairs.        *)
NextEnv ==
    \/ StartupEffect
    \/ \E s \in {"disconnected", "error"} : StartupStatus(s)
    \/ \E a \in BOOLEAN, env \in SavedEnvs : StartupConfigWith(<<"b">>, a, env)
    \/ \E pairs \in PairLists, ok \in BOOLEAN : StartupEnvWith(pairs, ok)
    \/ ConnectOk(0)
    \/ ConnectFail(0)
    \/ \E opts \in OptionLists : ConnectOptsOk(0, opts)

SpecEnv == InitMounted /\ [][NextEnv]_vars

(* prompt() from both starts: with no conversation, and with the saved    *)
(* conversation loaded and rendered.                                       *)

InitLoaded ==
    /\ status = "disconnected"
    /\ messages = <<>>
    /\ thread = Rebuilt(SavedStore[1])
    /\ thoughts = <<>>
    /\ isThinking = FALSE
    /\ turnActive = FALSE
    /\ permissionRequest = NoPermission
    /\ activeAssistantIdRef = NoId
    /\ activeConversationId = 1
    /\ conversations = <<1>>
    /\ configOptions = <<>>
    /\ threadRef = Rebuilt(SavedStore[1])
    /\ activeConversationIdRef = 1
    /\ pr = [p \in 1..MaxPrompts |-> NewPrompt]
    /\ pending = {}
    /\ store = SavedStore
    /\ last = [op |-> "init", arg |-> 0, turn |-> 0, calls |-> <<>>, input |-> <<>>,
               wasActive |-> FALSE, wasStatus |-> "disconnected"]
    /\ curTurn = 0
    /\ cancelledTurns = {}
    /\ loaded = 1
    /\ persistCount = [p \in 1..MaxPrompts |-> 0]
    /\ idleTransitions = 0
    /\ nEvents = 0
    /\ startupConnectAttempted = TRUE
    /\ startupConnects = 0
    /\ startupEnv = <<>>

(* A turn in the middle of its text: prompt("q") created conversation 1,   *)
(* its acp_prompt call was acknowledged, the chunk "a" arrived and React    *)
(* rendered, so that threadRef holds the assistant message with "a".       *)
(* nEvents counts the events delivered from here on.                       *)
InitStreaming ==
    LET streamed == <<UserEntry(1, <<"q">>),
                      [AssistantEntry(1) EXCEPT !.content = <<"a">>]>>
    IN  /\ status = "connected"
        /\ messages = <<"a">>
        /\ thread = streamed
        /\ thoughts = <<>>
        /\ isThinking = FALSE
        /\ turnActive = TRUE
        /\ permissionRequest = NoPermission
        /\ activeAssistantIdRef = makeMessageId("assistant", 1)
        /\ activeConversationId = 1
        /\ conversations = <<1>>
        /\ configOptions = <<>>
        /\ threadRef = streamed
        /\ activeConversationIdRef = 1
        /\ pr = [p \in 1..MaxPrompts |->
                    IF p = 1 THEN [pc |-> "done", query |-> <<"q">>, conv |-> 1, sent |-> TRUE]
                    ELSE NewPrompt]
        /\ pending = {}
        /\ store = StoreAdd(<<(<<>>)>>, Call("add_conversation_message", 1, "user", <<"q">>), TRUE)
        /\ last = [op |-> "init", arg |-> 0, turn |-> 0, calls |-> <<>>, input |-> <<>>,
                   wasActive |-> TRUE, wasStatus |-> "connected"]
        /\ curTurn = 1
        /\ cancelledTurns = {}
        /\ loaded = NoConv
        /\ persistCount = [p \in 1..MaxPrompts |-> 0]
        /\ idleTransitions = 0
        /\ nEvents = 0
        /\ startupConnectAttempted = TRUE
        /\ startupConnects = 0
        /\ startupEnv = <<>>

(* The rest of a turn's text and its completion, with the renders falling  *)
(* anywhere between the events, and a cancellation.                        *)
NextStream ==
    \/ Render
    \/ \E text \in Texts : MessageChunk(1, text)
    \/ \E text \in ThoughtTexts : ThoughtChunk(1, text)
    \/ \E ok \in BOOLEAN : TurnComplete(1, ok)
    \/ CancelCall
    \/ CancelOk
    \/ CancelFail

SpecStream == InitStreaming /\ [][NextStream]_vars

(* Prompt texts around the title cut: an empty one, one of TitleMax        *)
(* characters between two spaces, one of TitleMax + 1 characters.          *)
LongQueries ==
    {<<" ">>,
     <<" ">> \o [i \in 1..TitleMax |-> "x"] \o <<" ">>,
     [i \in 1..TitleMax + 1 |-> "x"]}

NextPrompting ==
    \/ Render
    \/ \E q \in Queries : PromptEmpty(q)
    \/ \E q \in Queries : PromptsMade < PromptBudget /\ PromptCreate(q)
    \/ \E q \in Queries, ok \in BOOLEAN : PromptsMade < PromptBudget /\ PromptDirect(q, ok)
    \/ \E p \in 1..MaxPrompts, ok \in BOOLEAN : CreateOk(p, ok)
    \/ \E p \in 1..MaxPrompts : CreateFail(p)
    \/ \E p \in 1..MaxPrompts : FetchOk(p)
    \/ \E p \in 1..MaxPrompts : PromptAck(p)
    \/ \E p \in 1..MaxPrompts : PromptFail(p)
    \/ \E t \in EventTurns : MessageChunk(t, <<"a">>)
    \/ \E t \in EventTurns, ok \in BOOLEAN : TurnComplete(t, ok)

SpecPrompt == (Init \/ InitLoaded) /\ [][NextPrompting]_vars

(* The conversation prompt() creates, for texts around the title cut. *)
NextTitle ==
    \/ Render
    \/ \E q \in LongQueries : PromptEmpty(q)
    \/ \E q \in LongQueries : PromptsMade < PromptBudget /\ PromptCreate(q)
    \/ \E q \in LongQueries : PromptsMade < PromptBudget /\ PromptDirect(q, TRUE)
    \/ \E p \in 1..MaxPrompts : CreateOk(p, TRUE)
    \/ \E p \in 1..MaxPrompts : CreateFail(p)
    \/ \E p \in 1..MaxPrompts : FetchOk(p)
    \/ \E p \in 1..MaxPrompts : PromptAck(p)
    \/ \E t \in EventTurns : TurnComplete(t, TRUE)

SpecTitle == (Init \/ InitLoaded) /\ [][NextTitle]_vars

----------------------------------------------------------------------------
(* resolvePermission(requestId, optionId), lines 358-378. *)

OptionIds == {"allow", "deny"}

(* The name under which a resolvePermission() in flight is kept. *)
ResolveOp == [allow |-> "resolve_allow", deny |-> "resolve_deny"]

(* What last records of a resolvePermission() step. *)
Resolution(requestId, optionId) == [id |-> requestId, option |-> optionId]

(* Line 361: acp_resolve_permission is invoked and awaited. *)
ResolveCallFrom(requestId, optionId, input) ==
    /\ CanCall(Op(ResolveOp[optionId], requestId))
    /\ pending' = pending \cup {Op(ResolveOp[optionId], requestId)}
    /\ last' = StepOn("resolve", Resolution(requestId, optionId), 0,
                      <<Call("acp_resolve_permission", NoConv, optionId, <<>>)>>, input)
    /\ UNCHANGED <<startupEnv, startupConnectAttempted, startupConnects, conversations,
                   status, configOptions, messages, thread, thoughts, isThinking,
                   turnActive, permissionRequest, activeAssistantIdRef,
                   activeConversationId, threadRef, activeConversationIdRef, pr, store,
                   curTurn, cancelledTurns, loaded, persistCount, idleTransitions,
                   nEvents>>

(* resolvePermission() called with nothing recorded of the caller. *)
ResolveCall(requestId, optionId) == ResolveCallFrom(requestId, optionId, <<>>)

(* ResolveOk marking the ToolCall by the option chosen. *)
ResolveOkByOption(requestId, optionId) ==
    /\ Op(ResolveOp[optionId], requestId) \in pending
    /\ pending' = pending \ {Op(ResolveOp[optionId], requestId)}
    /\ permissionRequest' = NoPermission
    /\ thread' = [i \in 1..Len(thread) |->
                      IF optionId = "allow"
                      THEN ApprovedEntry(thread[i], ToolEntryId(requestId))
                      ELSE thread[i]]
    /\ last' = Step("resolve_ok", Resolution(requestId, optionId), 0, <<>>)
    /\ UNCHANGED <<startupEnv, startupConnectAttempted, startupConnects, conversations,
                   status, configOptions, messages, thoughts, isThinking, turnActive,
                   activeAssistantIdRef, activeConversationId, threadRef,
                   activeConversationIdRef, pr, store, curTurn, cancelledTurns, loaded,
                   persistCount, idleTransitions, nEvents>>

(* acp_resolve_permission resolved: lines 362-372. *)
ResolveOk(requestId, optionId) ==
    /\ Op(ResolveOp[optionId], requestId) \in pending
    /\ pending' = pending \ {Op(ResolveOp[optionId], requestId)}
    /\ permissionRequest' = NoPermission
    /\ thread' = [i \in 1..Len(thread) |-> ApprovedEntry(thread[i], ToolEntryId(requestId))]
    /\ last' = Step("resolve_ok", Resolution(requestId, optionId), 0, <<>>)
    /\ UNCHANGED <<startupEnv, startupConnectAttempted, startupConnects, conversations,
                   status, configOptions, messages, thoughts, isThinking, turnActive,
                   activeAssistantIdRef, activeConversationId, threadRef,
                   activeConversationIdRef, pr, store, curTurn, cancelledTurns, loaded,
                   persistCount, idleTransitions, nEvents>>

(* acp_resolve_permission rejected: the catch, lines 373-375. *)
ResolveFail(requestId, optionId) ==
    /\ Op(ResolveOp[optionId], requestId) \in pending
    /\ pending' = pending \ {Op(ResolveOp[optionId], requestId)}
    /\ last' = Step("resolve_fail", Resolution(requestId, optionId), 0, <<>>)
    /\ UNCHANGED <<startupEnv, startupConnectAttempted, startupConnects, conversations,
                   status, configOptions, messages, thread, thoughts, isThinking,
                   turnActive, permissionRequest, activeAssistantIdRef,
                   activeConversationId, threadRef, activeConversationIdRef, pr, store,
                   curTurn, cancelledTurns, loaded, persistCount, idleTransitions,
                   nEvents>>

(* Permission negotiation within a turn. *)
NextPerm ==
    \/ \E q \in {<<"q">>} : PromptsMade < PromptBudget /\ PromptCreate(q)
    \/ \E p \in 1..MaxPrompts : CreateFail(p)
    \/ \E p \in 1..MaxPrompts : FetchOk(p)
    \/ \E p \in 1..MaxPrompts : PromptAck(p)
    \/ \E t \in EventTurns, id \in ToolIds : ToolCall(t, id, "T")
    \/ \E t \in EventTurns, id \in ToolIds : ToolCallUpdate(t, id, NullStr, "Some(Complete)")
    \/ \E t \in EventTurns, id \in ToolIds : PermissionRequestEvent(t, id, "rm")
    \/ \E t \in EventTurns : TurnComplete(t, TRUE)
    \/ \E id \in ToolIds, o \in OptionIds : ResolveCall(id, o)
    \/ \E id \in ToolIds, o \in OptionIds : ResolveOk(id, o)
    \/ \E id \in ToolIds, o \in OptionIds : ResolveFail(id, o)

SpecPerm == Init /\ [][NextPerm]_vars

(* The permission dialog's buttons and keys: they resolve the request the  *)
(* dialog shows, the outstanding one, as request.request_id.               *)
DialogResolve(optionId) ==
    /\ permissionRequest # NoPermission
    /\ ResolveCall(permissionRequest.request_id, optionId)

----------------------------------------------------------------------------
(* The permission dialog, in its two variants: "labelled" picks its Yes    *)
(* and No options by the words of kind and name (part_004), "positional"   *)
(* sends the first option on Enter and the last on Escape (part_005).      *)
(* Texts are sequences of characters.                                      *)

UpperToLower == [A |-> "a", D |-> "d", N |-> "n", Y |-> "y"]

(* String.prototype.toLowerCase over the letters the option texts use *)
toLowerCase(text) ==
    [i \in 1..Len(text) |->
         IF text[i] \in DOMAIN UpperToLower THEN UpperToLower[text[i]] ELSE text[i]]

(* String.prototype.includes *)
includes(text, word) ==
    \E i \in 1..(Len(text) - Len(word) + 1) : SubSeq(text, i, i + Len(word) - 1) = word

(* `${option.kind} ${option.name}`.toLowerCase(), part_004 lines 12 and 18 *)
OptionValue(option) == toLowerCase(option.kind \o <<" ">> \o option.name)

(* Array.prototype.find: the first element whose test matched, or none *)
NoOption == [option_id |-> "none", name |-> <<>>, kind |-> <<>>]

find(options, matches) ==
    IF \E i \in 1..Len(options) : matches[i]
    THEN options[CHOOSE i \in 1..Len(options) :
                     matches[i] /\ \A j \in 1..(i - 1) : ~matches[j]]
    ELSE NoOption

(* part_004 lines 10-14 *)
yesOption(options) ==
    LET matches == [i \in 1..Len(options) |->
                        \/ includes(OptionValue(options[i]), <<"a","l","l","o","w">>)
                        \/ includes(OptionValue(options[i]), <<"a","p","p","r","o","v","e">>)]
        found == find(options, matches)
    IN  IF found # NoOption THEN found
        ELSE IF Len(options) > 0 THEN options[1] ELSE NoOption

(* part_004 lines 16-24 *)
noOption(options) ==
    LET matches == [i \in 1..Len(options) |->
                        \/ includes(OptionValue(options[i]), <<"d","e","n","y">>)
                        \/ includes(OptionValue(options[i]), <<"r","e","j","e","c","t">>)
                        \/ includes(OptionValue(options[i]), <<"c","a","n","c","e","l">>)]
        found == find(options, matches)
    IN  IF found # NoOption THEN found
        ELSE IF Len(options) > 0 THEN options[Len(options)] ELSE yesOption(options)

DialogVariants == {"labelled", "positional"}

DialogActions == {"approve", "deny"}

(* The option a dialog sends for the approve action (Enter; the Yes button *)
(* of part_004) and for the deny action (Escape; the No button of          *)
(* part_004), NoOption when the action does nothing: part_004 lines 28-33, *)
(* 49-58, part_005 lines 12-20.                                            *)
Sent(variant, action, options) ==
    IF variant = "labelled"
    THEN IF action = "approve" THEN yesOption(options) ELSE noOption(options)
    ELSE IF action = "approve"
         THEN IF Len(options) > 0 THEN options[1] ELSE NoOption
         ELSE IF Len(options) > 1 THEN options[Len(options)] ELSE NoOption

(* The options an agent offers: by kind and name, or by name alone. *)
OptionCatalogue ==
    {[option_id |-> "allow", name |-> <<"A","l","l","o","w">>,
      kind |-> <<"a","l","l","o","w","_","o","n","c","e">>],
     [option_id |-> "allow", name |-> <<"Y","e","s">>, kind |-> <<"o","n","c","e">>],
     [option_id |-> "deny", name |-> <<"D","e","n","y">>,
      kind |-> <<"r","e","j","e","c","t","_","o","n","c","e">>],
     [option_id |-> "deny", name |-> <<"N","o">>, kind |-> <<"o","n","c","e">>]}

(* The option lists of a request: one option, or two different ones. *)
OptionLists2 ==
    {<<o>> : o \in OptionCatalogue}
        \cup {pair \in OptionCatalogue \X OptionCatalogue : pair[1] # pair[2]}

(* A key or button of the dialog showing the outstanding request with the  *)
(* given options: onResolve(request.request_id, option.option_id).         *)
DialogAction(variant, action, options) ==
    /\ permissionRequest # NoPermission
    /\ Sent(variant, action, options) # NoOption
    /\ ResolveCallFrom(permissionRequest.request_id,
                       Sent(variant, action, options).option_id,
                       [variant |-> variant, action |-> action, options |-> options])

(* The dialog's keys and buttons on the requests of a turn. *)
NextKeys ==
    \/ \E q \in {<<"q">>} : PromptsMade < PromptBudget /\ PromptCreate(q)
    \/ \E p \in 1..MaxPrompts : CreateOk(p, TRUE)
    \/ \E p \in 1..MaxPrompts : FetchOk(p)
    \/ \E t \in EventTurns, id \in ToolIds : PermissionRequestEvent(t, id, "rm")
    \/ \E v \in DialogVariants, a \in DialogActions, options \in OptionLists2 :
           DialogAction(v, a, options)
    \/ \E id \in ToolIds, o \in OptionIds : ResolveOk(id, o)
    \/ \E id \in ToolIds, o \in OptionIds : ResolveFail(id, o)

SpecKeys == Init /\ [][NextKeys]_vars

----------------------------------------------------------------------------
(* The conversation binder: newConversation(), lines 418-426, and          *)
(* deleteConversation(), lines 428-443.                                    *)

(* newConversation() keeping the Turn state: only the thread and the       *)
(* conversation id are reset.                                              *)
NewConversationKeepsTurn ==
    /\ thread' = <<>>
    /\ activeConversationId' = NoConv
    /\ loaded' = NoConv
    /\ UNCHANGED <<messages, thoughts, turnActive, isThinking, activeAssistantIdRef,
                   idleTransitions>>

(* The body of newConversation(), lines 419-425. *)
NewConversationBody ==
    /\ thread' = <<>>
    /\ messages' = <<>>
    /\ thoughts' = <<>>
    /\ turnActive' = FALSE
    /\ isThinking' = FALSE
    /\ activeConversationId' = NoConv
    /\ activeAssistantIdRef' = NoId
    /\ idleTransitions' = AfterIdle
    /\ loaded' = NoConv

newConversation ==
    /\ NewConversationBody
    /\ last' = Step("new_conversation", 0, 0, <<>>)
    /\ UNCHANGED <<startupEnv, startupConnectAttempted, startupConnects, conversations,
                   status, configOptions, permissionRequest, threadRef,
                   activeConversationIdRef, pr, pending, store, curTurn,
                   cancelledTurns, persistCount, nEvents>>

(* clearThread(), lines 348-356: the same resets as newConversation(),    *)
(* made synchronously; the permission request is not among them.           *)
clearThread ==
    /\ thread' = <<>>
    /\ messages' = <<>>
    /\ thoughts' = <<>>
    /\ turnActive' = FALSE
    /\ isThinking' = FALSE
    /\ activeConversationId' = NoConv
    /\ activeAssistantIdRef' = NoId
    /\ idleTransitions' = AfterIdle
    /\ loaded' = NoConv
    /\ last' = Step("clear_thread", 0, 0, <<>>)
    /\ UNCHANGED <<startupEnv, startupConnectAttempted, startupConnects, conversations,
                   status, configOptions, permissionRequest, threadRef,
                   activeConversationIdRef, pr, pending, store, curTurn,
                   cancelledTurns, persistCount, nEvents>>

(* The permission dialog under the ends of a turn: a request is shown and  *)
(* resolved through the dialog while the turn completes, is cancelled, the *)
(* agent is disconnected or the conversation is reset.                     *)
NextDialog ==
    \/ \E q \in {<<"q">>} : PromptsMade < PromptBudget /\ PromptCreate(q)
    \/ \E p \in 1..MaxPrompts : CreateOk(p, TRUE)
    \/ \E p \in 1..MaxPrompts : FetchOk(p)
    \/ \E p \in 1..MaxPrompts : PromptAck(p)
    \/ \E t \in EventTurns, id \in ToolIds : PermissionRequestEvent(t, id, "rm")
    \/ \E t \in EventTurns : TurnComplete(t, TRUE)
    \/ \E o \in OptionIds : DialogResolve(o)
    \/ \E id \in ToolIds, o \in OptionIds : ResolveOk(id, o)
    \/ \E id \in ToolIds, o \in OptionIds : ResolveFail(id, o)
    \/ CancelCall
    \/ CancelOk
    \/ DisconnectCall
    \/ DisconnectOk
    \/ newConversation
    \/ clearThread

SpecDialog == Init /\ [][NextDialog]_vars

(* delete_conversation as the store applies it: the conversation keeps its *)
(* id and loses its messages, so get_conversation_messages answers the     *)
(* empty list for it.                                                      *)
StoreDelete(st, c) == IF c \in 1..Len(st) THEN [st EXCEPT ![c] = <<>>] ELSE st

(* prev.filter((c) => c.id !== conversationId), lines 432-434 *)
WithoutConversation(list, c) == SelectSeq(list, LAMBDA x : x # c)

(* Line 431: delete_conversation is invoked and awaited. *)
DeleteCall(c) ==
    /\ CanCall(Op("delete", c))
    /\ pending' = pending \cup {Op("delete", c)}
    /\ last' = Step("delete", c, 0, <<Call("delete_conversation", c, "", <<>>)>>)
    /\ UNCHANGED <<startupEnv, startupConnectAttempted, startupConnects, conversations,
                   status, configOptions, messages, thread, thoughts, isThinking, turnActive,
                   permissionRequest, activeAssistantIdRef, activeConversationId,
                   threadRef, activeConversationIdRef, pr, store, curTurn,
                   cancelledTurns, loaded, persistCount, idleTransitions, nEvents>>

(* DeleteOk starting a new conversation whichever conversation went. *)
DeleteOkAlwaysNew(c) ==
    /\ Op("delete", c) \in pending
    /\ pending' = pending \ {Op("delete", c)}
    /\ store' = StoreDelete(store, c)
    /\ conversations' = WithoutConversation(conversations, c)
    /\ NewConversationBody
    /\ last' = Step("delete_ok", c, 0, <<>>)
    /\ UNCHANGED <<startupEnv, startupConnectAttempted, startupConnects,
                   status, configOptions, permissionRequest, threadRef,
                   activeConversationIdRef, pr, curTurn, cancelledTurns,
                   persistCount, nEvents>>

(* delete_conversation resolved: lines 432-437. *)
DeleteOk(c) ==
    /\ Op("delete", c) \in pending
    /\ pending' = pending \ {Op("delete", c)}
    /\ store' = StoreDelete(store, c)
    /\ conversations' = WithoutConversation(conversations, c)
    /\ IF activeConversationIdRef = c
       THEN NewConversationBody
       ELSE UNCHANGED <<thread, messages, thoughts, turnActive, isThinking,
                        activeConversationId, activeAssistantIdRef, idleTransitions,
                        loaded>>
    /\ last' = Step("delete_ok", c, 0, <<>>)
    /\ UNCHANGED <<startupEnv, startupConnectAttempted, startupConnects,
                   status, configOptions, permissionRequest, threadRef,
                   activeConversationIdRef, pr, curTurn, cancelledTurns,
                   persistCount, nEvents>>

(* delete_conversation rejected: the catch, lines 438-440. *)
DeleteFail(c) ==
    /\ Op("delete", c) \in pending
    /\ pending' = pending \ {Op("delete", c)}
    /\ last' = Step("delete_fail", c, 0, <<>>)
    /\ UNCHANGED <<startupEnv, startupConnectAttempted, startupConnects, conversations,
                   status, configOptions, messages, thread, thoughts, isThinking, turnActive,
                   permissionRequest, activeAssistantIdRef, activeConversationId,
                   threadRef, activeConversationIdRef, pr, store, curTurn,
                   cancelledTurns, loaded, persistCount, idleTransitions, nEvents>>

(* A turn that streams thoughts of either text next to its message and     *)
(* completes.                                                              *)
ThoughtVariants == {<<"t">>, <<"u">>}

NextThought ==
    \/ Render
    \/ \E q \in {<<"q">>} : PromptsMade < PromptBudget /\ PromptCall(q)
    \/ \E p \in 1..MaxPrompts : CreateOk(p, TRUE)
    \/ \E p \in 1..MaxPrompts : FetchOk(p)
    \/ \E t \in EventTurns : MessageChunk(t, <<"a">>)
    \/ \E t \in EventTurns, text \in ThoughtVariants : ThoughtChunk(t, text)
    \/ \E t \in EventTurns, ok \in BOOLEAN : TurnComplete(t, ok)

SpecThought == (Init \/ InitLoaded) /\ [][NextThought]_vars

(* newConversation() while a turn streams on a live connection. *)
NextNew ==
    \/ Render
    \/ \E q \in {<<"q">>} : PromptsMade < PromptBudget /\ PromptCall(q)
    \/ \E p \in 1..MaxPrompts : CreateOk(p, TRUE)
    \/ \E p \in 1..MaxPrompts : FetchOk(p)
    \/ \E t \in EventTurns : MessageChunk(t, <<"a">>)
    \/ \E t \in EventTurns : ThoughtChunk(t, <<"t">>)
    \/ \E s \in {"connected"} : StatusChange(s)
    \/ \E opts \in {<<"model">>} : ConfigOptionsEvent(opts)
    \/ newConversation

SpecNew == (Init \/ InitLoaded) /\ [][NextNew]_vars

(* Conversations deleted while a turn streams, from both starts. *)
NextBinder ==
    \/ Render
    \/ \E q \in {<<"q">>} : PromptsMade < PromptBudget /\ PromptCall(q)
    \/ \E p \in 1..MaxPrompts : CreateOk(p, TRUE)
    \/ \E p \in 1..MaxPrompts : FetchOk(p)
    \/ \E t \in EventTurns : MessageChunk(t, <<"a">>)
    \/ newConversation
    \/ \E c \in LoadIds : DeleteCall(c)
    \/ \E c \in LoadIds : DeleteOk(c)
    \/ \E c \in LoadIds : DeleteFail(c)

SpecBinder == (Init \/ InitLoaded) /\ [][NextBinder]_vars

----------------------------------------------------------------------------
(* Session configuration: setConfigOption(), lines 459-472. *)

ConfigIds == {"model", "mode"}

(* Lines 462-465: acp_set_config_option is invoked and awaited. *)
SetConfigOptionCall(configId) ==
    /\ CanCall(Op("set_config_option", 0))
    /\ pending' = pending \cup {Op("set_config_option", 0)}
    /\ last' = StepOn("set_config_option", 0, 0,
                      <<Call("acp_set_config_option", NoConv, "", <<>>)>>, configId)
    /\ UNCHANGED <<startupEnv, startupConnectAttempted, startupConnects, conversations,
                   status, configOptions, messages, thread, thoughts, isThinking, turnActive,
                   permissionRequest, activeAssistantIdRef, activeConversationId,
                   threadRef, activeConversationIdRef, pr, store, curTurn,
                   cancelledTurns, loaded, persistCount, idleTransitions, nEvents>>

(* SetConfigOptionOk merging: the returned options the local list lacks    *)
(* are added to it.                                                        *)
SetConfigOptionOkMerge(updated) ==
    /\ Op("set_config_option", 0) \in pending
    /\ pending' = pending \ {Op("set_config_option", 0)}
    /\ configOptions' =
           configOptions \o
           SelectSeq(updated, LAMBDA o : \A i \in 1..Len(configOptions) : configOptions[i] # o)
    /\ last' = StepOn("set_config_option_ok", updated, 0, <<>>, configOptions)
    /\ UNCHANGED <<startupEnv, startupConnectAttempted, startupConnects, conversations,
                   status, messages, thread, thoughts, isThinking, turnActive,
                   permissionRequest, activeAssistantIdRef, activeConversationId,
                   threadRef, activeConversationIdRef, pr, store, curTurn,
                   cancelledTurns, loaded, persistCount, idleTransitions, nEvents>>

(* acp_set_config_option resolved with the list updated: line 466.  The   *)
(* step records the list it replaced.                                      *)
SetConfigOptionOk(updated) ==
    /\ Op("set_config_option", 0) \in pending
    /\ pending' = pending \ {Op("set_config_option", 0)}
    /\ configOptions' = updated
    /\ last' = StepOn("set_config_option_ok", updated, 0, <<>>, configOptions)
    /\ UNCHANGED <<startupEnv, startupConnectAttempted, startupConnects, conversations,
                   status, messages, thread, thoughts, isThinking, turnActive,
                   permissionRequest, activeAssistantIdRef, activeConversationId,
                   threadRef, activeConversationIdRef, pr, store, curTurn,
                   cancelledTurns, loaded, persistCount, idleTransitions, nEvents>>

(* acp_set_config_option rejected: the catch, lines 467-469. *)
SetConfigOptionFail ==
    /\ Op("set_config_option", 0) \in pending
    /\ pending' = pending \ {Op("set_config_option", 0)}
    /\ last' = Step("set_config_option_fail", 0, 0, <<>>)
    /\ UNCHANGED <<startupEnv, startupConnectAttempted, startupConnects, conversations,
                   status, configOptions, messages, thread, thoughts, isThinking, turnActive,
                   permissionRequest, activeAssistantIdRef, activeConversationId,
                   threadRef, activeConversationIdRef, pr, store, curTurn,
                   cancelledTurns, loaded, persistCount, idleTransitions, nEvents>>

(* The ConfigOption set under setConfigOption(), the agent's pushes and a  *)
(* connect() that fetches the options.                                     *)
NextConfig ==
    \/ \E n \in ConnectSlots : ConnectCall(n)
    \/ \E n \in ConnectSlots : ConnectOk(n)
    \/ \E n \in ConnectSlots, opts \in OptionLists : ConnectOptsOk(n, opts)
    \/ \E s \in {"connected"} : StatusChange(s)
    \/ \E opts \in OptionLists : ConfigOptionsEvent(opts)
    \/ \E configId \in ConfigIds : SetConfigOptionCall(configId)
    \/ \E updated \in OptionLists \cup {<<>>} : SetConfigOptionOk(updated)
    \/ SetConfigOptionFail

SpecConfig == Init /\ [][NextConfig]_vars

----------------------------------------------------------------------------
(* The claims. *)

TurnEventOps ==
    {"message_chunk", "thought_chunk", "tool_call", "tool_call_update", "turn_complete"}

AssistantEntries(t) == SelectSeq(t, LAMBDA e : e.role = "assistant")

ToolEntries(t) == SelectSeq(t, LAMBDA e : e.role = "tool")

(* A cancel took effect on the turn of the prompt accepted last. *)
cancelled == curTurn \in cancelledTurns

KnownTool(t, id) == \E i \in 1..Len(t) : t[i].id = ToolEntryId(id)

(* The calls of a step that reach the transport or the store with effect:  *)
(* everything prompt() may issue.                                          *)
IssuesCalls(step) == step.calls # <<>>

(* C1: prompt(text) issued while a Turn is Active is a no-op: it appends   *)
(* nothing to the thread, issues no outbound call (no create_conversation, *)
(* no persistence call, no prompt call) and does not replace the           *)
(* active-assistant pointer.                                               *)
C1_PromptWhileActiveIsNoOp ==
    [][(turnActive /\ last'.op \in {"prompt", "prompt_create"})
           => /\ thread' = thread
              /\ activeAssistantIdRef' = activeAssistantIdRef
              /\ ~IssuesCalls(last')]_vars

(* C2: when turn_complete is handled for a turn (its assistant message is  *)
(* the one the active-assistant pointer names, and a conversation is       *)
(* active), exactly one add_conversation_message(role=assistant) call is   *)
(* made if that message's content is non-empty and none if it is empty;    *)
(* and no assistant message is persisted more than once.                   *)
C2_PersistIffNonEmpty ==
    /\ [](\A p \in 1..MaxPrompts : persistCount[p] <= 1)
    /\ [][(/\ last'.op = "turn_complete"
           /\ activeAssistantIdRef # NoId
           /\ activeConversationIdRef # NoConv
           /\ FindFirst(thread, activeAssistantIdRef) # 0)
              => Len(last'.calls) =
                     IF Len(thread[FindFirst(thread, activeAssistantIdRef)].content) > 0
                     THEN 1 ELSE 0]_vars

C6_StaleEventsDiscarded ==
    [][(/\ last'.op \in {"message_chunk", "turn_complete"}
        /\ curTurn # 0
        /\ last'.turn # curTurn
        /\ last'.turn \in cancelledTurns)
           => /\ thread' = thread
              /\ turnActive' = turnActive
              /\ activeAssistantIdRef' = activeAssistantIdRef
              /\ last'.calls = <<>>]_vars

(* C7: a successful loadConversation(id) yields a thread with exactly one   *)
(* entry per stored message, in stored order, with id, role and content    *)
(* preserved; sets the active-conversation pointer to id; and resets the   *)
(* Turn state (not active, not thinking, both buffers empty, the           *)
(* active-assistant pointer cleared), also when a turn was Active.         *)
C7_LoadRebuilds ==
    last.op = "load_ok" =>
        /\ Len(thread) = Len(store[last.arg])
        /\ \A i \in 1..Len(thread) :
               /\ thread[i].id = store[last.arg][i].id
               /\ thread[i].role = store[last.arg][i].role
               /\ thread[i].content = store[last.arg][i].content
        /\ activeConversationId = last.arg
        /\ ~turnActive
        /\ ~isThinking
        /\ messages = <<>>
        /\ thoughts = <<>>
        /\ activeAssistantIdRef = NoId

(* C7's case: a conversation holding a user and an assistant message was   *)
(* loaded while a turn was Active.                                         *)
C7_Witness ==
    /\ last.op = "load_ok"
    /\ last.wasActive
    /\ Len(store[last.arg]) >= 2
    /\ store[last.arg][1].role = "user"
    /\ store[last.arg][2].role = "assistant"

(* C8: after loadConversation(id) completes and until the next prompt is   *)
(* accepted, no message_chunk, tool_call, tool_call_update or              *)
(* permission_request event adds an entry to the loaded thread or modifies *)
(* one.                                                                    *)
C8_LoadedThreadUntouched ==
    [][(/\ loaded # NoConv
        /\ last'.op \in {"message_chunk", "tool_call", "tool_call_update",
                         "permission_request"})
           => thread' = thread]_vars

(* C9: a tool_call_update or permission_request event whose id matches no  *)
(* ToolCall of the thread alters no entry of the thread (no title, status  *)
(* or command preview of an existing ToolCall) and adds none.              *)
C9_UnknownIdLeavesThread ==
    [][(/\ last'.op \in {"tool_call_update", "permission_request"}
        /\ ~KnownTool(thread, last'.arg))
           => thread' = thread]_vars

(* C9's case: such an event arrived for an unknown id while the thread     *)
(* held a ToolCall of another id.                                          *)
C9_Witness ==
    /\ last.op \in {"tool_call_update", "permission_request"}
    /\ ~KnownTool(thread, last.arg)
    /\ ToolEntries(thread) # <<>>

(* C10 as stated: a permission_request whose requestId matches no ToolCall *)
(* is a complete no-op: it neither becomes the outstanding                 *)
(* PermissionRequest nor replaces an outstanding one.                      *)
C10_UnknownPermissionIsNoOp ==
    [][(last'.op = "permission_request" /\ ~KnownTool(thread, last'.arg))
           => permissionRequest' = permissionRequest /\ thread' = thread]_vars

(* C10 as amended: a permission_request whose requestId matches no         *)
(* ToolCall leaves every thread entry unchanged, and it does become the    *)
(* outstanding PermissionRequest, replacing an outstanding one.            *)
C10_UnknownPermissionIsRecorded ==
    [][(last'.op = "permission_request" /\ ~KnownTool(thread, last'.arg))
           => /\ thread' = thread
              /\ permissionRequest'.request_id = last'.arg
              /\ permissionRequest' # NoPermission]_vars

(* C10's case: a request for an unknown id is outstanding, the thread      *)
(* holding a ToolCall of another id.                                       *)
C10_Witness ==
    /\ last.op = "permission_request"
    /\ ~KnownTool(thread, last.arg)
    /\ permissionRequest.request_id = last.arg
    /\ ToolEntries(thread) # <<>>

(* What disconnect() is to leave behind. *)
Disconnected ==
    /\ status = "disconnected"
    /\ ~turnActive
    /\ thread = <<>>
    /\ activeConversationId = NoConv
    /\ configOptions = <<>>

(* C11 as stated: after disconnect() returns, whatever the prior status    *)
(* and whether or not acp_disconnect succeeded, the status is              *)
(* Disconnected, no Turn is active, the thread is empty, the               *)
(* active-conversation pointer is unset and the ConfigOption set is empty. *)
C11_DisconnectUnconditional ==
    last.op \in {"disconnect_ok", "disconnect_fail"} => Disconnected

(* C11 as amended: after a disconnect() whose outbound call succeeded,     *)
(* whatever the prior status, the status is Disconnected, no Turn is       *)
(* active, the thread is empty, the pointer is unset and the ConfigOption  *)
(* set is empty, and a second call leaves that state unchanged; a          *)
(* disconnect() whose outbound call fails changes none of them.            *)
C11_DisconnectOnAck ==
    /\ [](last.op = "disconnect_ok" => Disconnected)
    /\ [][(Disconnected /\ last'.op \in {"disconnect", "disconnect_ok", "disconnect_fail"})
              => Disconnected']_vars
    /\ [][last'.op \in {"disconnect", "disconnect_fail"}
              => /\ status' = status
                 /\ turnActive' = turnActive
                 /\ thread' = thread
                 /\ activeConversationId' = activeConversationId
                 /\ configOptions' = configOptions]_vars

(* C11's case: disconnect() succeeded on a connection that was Connected,  *)
(* with a turn Active.                                                     *)
C11_Witness ==
    /\ last.op = "disconnect_ok"
    /\ last.wasActive
    /\ last.wasStatus = "connected"

(* C12: connect(config) invoked while the status is Connecting or          *)
(* Connected is rejected: it issues no outbound connect call and leaves    *)
(* the status and the ConfigOption set unchanged.                          *)
C12_ConnectRejected ==
    [][(status \in {"connecting", "connected"} /\ last'.op = "connect")
           => /\ last'.calls = <<>>
              /\ status' = status
              /\ configOptions' = configOptions]_vars

(* C13: when acp_connect has succeeded on a connection the transport       *)
(* reports Connected, connect() returns with the status Connected and,     *)
(* the options fetched, with the ConfigOption set equal to the list        *)
(* get_config_options returned.                                            *)
C13_ConnectedWithOptions ==
    [][(status = "connected" /\ last'.op \in {"connect_done", "connect_opts_fail"})
           => /\ status' = "connected"
              /\ last'.op = "connect_done" => configOptions' = last'.arg]_vars

(* C14 as stated: when acp_connect fails the status becomes Error and the  *)
(* failure issues no further connect call; the status stays Error until    *)
(* connect is called again.                                                *)
C14_ErrorUntilConnect ==
    /\ [](last.op = "connect_fail" => status = "error" /\ last.calls = <<>>)
    /\ [][(status = "error" /\ last'.op \notin {"connect", "startup_connect"})
              => status' = "error"]_vars

(* The steps that take the status out of Error: connect() (the user's or   *)
(* the startup reattachment's), the status the startup queried, a          *)
(* successful disconnect() and a status_change event.                      *)
StatusSetters ==
    {"connect", "startup_connect", "startup_status", "disconnect_ok", "status_change"}

(* C14 as amended: when acp_connect fails the status becomes Error and the *)
(* failure issues no further call (no automatic retry); the status stays   *)
(* Error through every step that is not a new connect call, a successful   *)
(* disconnect, a status_change event or the status the startup             *)
(* reattachment queried.                                                   *)
C14_ErrorNoRetry ==
    /\ [](last.op = "connect_fail" => status = "error" /\ last.calls = <<>>)
    /\ [][(status = "error" /\ last'.op \notin StatusSetters) => status' = "error"]_vars

(* C14's case: acp_connect failed on a connect() the user made. *)
C14_Witness ==
    /\ last.op = "connect_fail"
    /\ last.arg # 0
    /\ last.wasStatus = "connecting"

(* C15 as stated: once the status is Error it remains Error until a new    *)
(* connect call: no inbound event, status_change included, and no          *)
(* operation other than connect moves it out of Error.                     *)
C15_ErrorTerminal ==
    [][(status = "error" /\ last'.op \notin {"connect", "startup_connect"})
           => status' = "error"]_vars

(* C15 as amended: once the status is Error it leaves Error only through a *)
(* connect call, a successful disconnect, a status_change event or the     *)
(* status the startup reattachment queried; no other event or operation    *)
(* moves it out of Error.                                                  *)
C15_ErrorUntilSet ==
    [][(status = "error" /\ status' # "error") => last'.op \in StatusSetters]_vars

(* C15's case: the status being Error, a step that is none of those was    *)
(* taken, here an event of the options channel or the failure of a second  *)
(* call.                                                                   *)
C15_Witness ==
    /\ status = "error"
    /\ last.wasStatus = "error"
    /\ last.op \in {"config_options", "connect_opts_fail", "disconnect_fail", "prompt_create"}

(* The steps at which a prompt is accepted: with the conversation known,  *)
(* just created, or not created.                                           *)
AcceptOps == {"prompt", "create_ok", "create_fail"}

CallNames(calls) == {calls[i].c : i \in 1..Len(calls)}

(* C16: an accepted prompt appends to the end of the thread, in this       *)
(* order, a user message holding the trimmed text and an assistant         *)
(* placeholder with empty content; sets Turn Active and isThinking true    *)
(* and resets the message and thought buffers; and issues the user-message *)
(* persistence call (made whenever a conversation is known) before the     *)
(* outbound prompt call, which follows the context-item fetch.             *)
C16_AcceptedPrompt ==
    /\ [][last'.op \in AcceptOps =>
            LET p == last'.arg
                n == Len(thread)
                text == pr'[p].query
            IN  /\ Len(thread') = n + 2
                /\ SubSeq(thread', 1, n) = thread
                /\ thread'[n + 1].role = "user"
                /\ thread'[n + 1].content = text
                /\ text # <<>> /\ Head(text) # " " /\ text[Len(text)] # " "
                /\ thread'[n + 2].role = "assistant"
                /\ thread'[n + 2].content = <<>>
                /\ thread'[n + 2].id = activeAssistantIdRef'
                /\ turnActive' /\ isThinking'
                /\ messages' = <<>> /\ thoughts' = <<>>
                /\ "acp_prompt" \notin CallNames(last'.calls)
                /\ last'.calls[Len(last'.calls)].c = "get_all_items"
                /\ pr'[p].conv # NoConv =>
                       last'.calls[1] =
                           Call("add_conversation_message", pr'[p].conv, "user", text)]_vars
    /\ [][last'.op = "fetch_ok" =>
            /\ pr[last'.arg].pc = "fetching"
            /\ last'.calls = <<Call("acp_prompt", NoConv, "", pr[last'.arg].query)>>]_vars

(* C16's case: a prompt whose text had spaces around it was accepted on a  *)
(* thread that held entries, its user message persisted, and its outbound  *)
(* prompt call was issued.                                                 *)
C16_Witness ==
    /\ last.op = "fetch_ok"
    /\ Len(thread) = 4
    /\ thread[3].role = "user"
    /\ Len(store[1]) = 3
    /\ store[1][3].content = thread[3].content

(* C17: when a prompt is accepted with no active conversation (as prompt() *)
(* reads the pointer, line 274), exactly one conversation is created,      *)
(* whose title is the trimmed text if it has at most 50 characters and     *)
(* otherwise its first 50 characters followed by an ellipsis; when a       *)
(* conversation is active, prompt creates none.                            *)
C17_ConversationTitle ==
    /\ [][last'.op = "prompt_create" =>
            LET nq == pr'[last'.arg].query
                title == last'.calls[1].content
            IN  /\ activeConversationIdRef = NoConv
                /\ Len(last'.calls) = 1
                /\ last'.calls[1].c = "create_conversation"
                /\ Len(nq) <= 50 => title = nq
                /\ Len(nq) > 50 =>
                       /\ Len(title) = 53
                       /\ SubSeq(title, 1, 50) = SubSeq(nq, 1, 50)
                       /\ SubSeq(title, 51, 53) = <<".", ".", ".">>]_vars
    /\ [][last'.op = "create_ok" => Len(store') = Len(store) + 1]_vars
    /\ [][last'.op \in {"prompt", "create_fail", "fetch_ok", "prompt_ack", "prompt_empty"} =>
            /\ "create_conversation" \notin CallNames(last'.calls)
            /\ Len(store') = Len(store)]_vars
    /\ [][last'.op = "prompt" => activeConversationIdRef # NoConv]_vars

(* C17's case: the conversation of a prompt of more than 50 characters was *)
(* created.                                                                *)
C17_Witness ==
    /\ last.op = "create_ok"
    /\ Len(pr[last.arg].query) > 50
    /\ Len(store) = 1

(* C18: if the outbound prompt call, or the context-item fetch before it,  *)
(* fails, the Turn reverts to Idle with isThinking false and the           *)
(* active-assistant pointer cleared, and the turn's assistant placeholder  *)
(* receives the literal fallback content if and only if its content is     *)
(* still empty; a placeholder that already received text keeps it, as does *)
(* every other entry.                                                      *)
C18_PromptFailure ==
    [][last'.op = "prompt_fail" =>
         /\ ~turnActive' /\ ~isThinking'
         /\ activeAssistantIdRef' = NoId
         /\ Len(thread') = Len(thread)
         /\ \A i \in 1..Len(thread) :
                IF thread[i].id = makeMessageId("assistant", last'.arg)
                     /\ thread[i].content = <<>>
                THEN thread'[i] =
                         [thread[i] EXCEPT !.content =
                              <<"I hit an error while sending that. Please try again.">>]
                ELSE thread'[i] = thread[i]]_vars

(* C18's case: the outbound prompt call failed after a message_chunk had   *)
(* reached the placeholder.                                                *)
C18_Witness ==
    /\ last.op = "prompt_fail"
    /\ last.wasActive
    /\ \E i \in 1..Len(thread) :
           /\ thread[i].id = makeMessageId("assistant", last.arg)
           /\ thread[i].content = <<"a">>

(* A step whose add_conversation_message call the store did not apply. *)
AppendFailed ==
    /\ "add_conversation_message" \in CallNames(last'.calls)
    /\ StoredCount(store') = StoredCount(store)

(* C19: a failure of conversation creation or of a message append never    *)
(* stalls or fails the turn: if create_conversation fails the prompt still *)
(* appends its thread entries, becomes Active and goes on to the outbound  *)
(* prompt call, issuing no persistence call; a failed                      *)
(* add_conversation_message leaves the Turn state and the thread as the    *)
(* step makes them when the append succeeds.                               *)
C19_PersistenceFailures ==
    /\ [][last'.op = "create_fail" =>
            /\ Len(thread') = Len(thread) + 2
            /\ turnActive'
            /\ pr'[last'.arg].pc = "fetching"
            /\ CallNames(last'.calls) = {"get_all_items"}
            /\ store' = store]_vars
    /\ [][(AppendFailed /\ last'.op \in AcceptOps) =>
            /\ Len(thread') = Len(thread) + 2
            /\ turnActive' /\ isThinking'
            /\ pr'[last'.arg].pc = "fetching"]_vars
    /\ [][(AppendFailed /\ last'.op = "turn_complete") =>
            /\ thread' = thread
            /\ ~turnActive' /\ ~isThinking'
            /\ activeAssistantIdRef' = NoId]_vars

(* C19's case: the turn of a prompt whose conversation could not be        *)
(* created went on to its outbound prompt call.                            *)
C19_Witness ==
    /\ last.op = "fetch_ok"
    /\ pr[last.arg].conv = NoConv
    /\ turnActive
    /\ store = <<>>

----------------------------------------------------------------------------
(* C21: no two ToolCall entries of the thread share an id, and a tool_call *)
(* event whose id the thread already holds adds no second entry.           *)
C21_UniqueToolIds ==
    /\ [](\A i, j \in 1..Len(thread) :
              (i # j /\ thread[i].role = "tool" /\ thread[j].role = "tool")
                  => thread[i].id # thread[j].id)
    /\ [][(last'.op = "tool_call" /\ KnownTool(thread, last'.arg))
              => thread' = thread]_vars

(* An update the status mapping does not know: no status, or a token other *)
(* than Complete and Error.                                                *)
UnknownToken(tok) == tok \notin {"Some(Complete)", "Some(Error)"}

ToolStatusOf(tok, was) ==
    IF tok = "Some(Complete)" THEN "completed"
    ELSE IF tok = "Some(Error)" THEN "error" ELSE was

(* C22 as stated: a tool_call_update for a known id sets the status to     *)
(* Completed on 'complete' and to Error on 'error'; with any other token  *)
(* or none it is ignored: the ToolCall's status and title stay as they     *)
(* were.                                                                   *)
C22_UnknownTokenIgnored ==
    [][(last'.op = "tool_call_update" /\ KnownTool(thread, last'.arg))
           => /\ Len(thread') = Len(thread)
              /\ \A i \in 1..Len(thread) :
                     thread[i].id = ToolEntryId(last'.arg)
                         => /\ thread'[i].toolStatus =
                                   ToolStatusOf(last'.input.status, thread[i].toolStatus)
                            /\ UnknownToken(last'.input.status)
                                   => thread'[i].toolTitle = thread[i].toolTitle]_vars

(* C22: a tool_call_update for a known id sets the status to Completed on  *)
(* 'complete' and to Error on 'error' and leaves it with any other token   *)
(* or none; whatever the token, the title becomes the update's title when  *)
(* it carries one and stays otherwise, and nothing else of the thread      *)
(* changes.                                                                *)
C22_StatusMapping ==
    [][(last'.op = "tool_call_update" /\ KnownTool(thread, last'.arg))
           => /\ Len(thread') = Len(thread)
              /\ \A i \in 1..Len(thread) :
                     IF thread[i].id = ToolEntryId(last'.arg)
                     THEN /\ thread'[i].toolStatus =
                                 ToolStatusOf(last'.input.status, thread[i].toolStatus)
                          /\ thread'[i].toolTitle =
                                 IF last'.input.title = NullStr
                                 THEN thread[i].toolTitle ELSE last'.input.title
                          /\ thread'[i].content = thread[i].content
                          /\ thread'[i].commandPreview = thread[i].commandPreview
                     ELSE thread'[i] = thread[i]]_vars

(* C22's case: an update with a title and a token outside the mapping      *)
(* reached a ToolCall that was created without a title.                    *)
C22_Witness ==
    /\ last.op = "tool_call_update"
    /\ UnknownToken(last.input.status)
    /\ last.input.title # NullStr
    /\ \E i \in 1..Len(thread) :
           /\ thread[i].id = ToolEntryId(last.arg)
           /\ thread[i].toolTitle = last.input.title
           /\ thread[i].toolStatus = "running"

(* The steps of the two listeners of turn events. *)
InboundEventOps ==
    TurnEventOps \cup {"plan", "status_change", "permission_request", "config_options"}

Terminal(entry) == entry.role = "tool" /\ entry.toolStatus \in {"completed", "error"}

(* C23: no inbound event removes a ToolCall entry from the thread, and     *)
(* once a ToolCall is Completed or Error no later tool_call_update,        *)
(* permission_request or resolvePermission changes its status.             *)
C23_ToolCallsTerminal ==
    /\ [][last'.op \in InboundEventOps
              => /\ Len(thread') >= Len(thread)
                 /\ \A i \in 1..Len(thread) :
                        thread[i].role = "tool"
                            => thread'[i].role = "tool" /\ thread'[i].id = thread[i].id]_vars
    /\ [][last'.op \in {"tool_call_update", "permission_request", "resolve_ok"}
              => /\ Len(thread') = Len(thread)
                 /\ \A i \in 1..Len(thread) :
                        Terminal(thread[i])
                            => thread'[i].toolStatus = thread[i].toolStatus]_vars

(* The content of the assistant message the pointer names. *)
ActiveContents(t) == {t[i].content : i \in {j \in 1..Len(t) : t[j].id = activeAssistantIdRef}}

(* C24: while the active-assistant pointer is set, the content of that     *)
(* assistant message equals the message buffer, and both are the texts of  *)
(* the message_chunk events since the prompt was accepted, in arrival      *)
(* order: empty when the pointer is set, extended at the end by each       *)
(* message_chunk and by nothing else; each message_chunk clears            *)
(* isThinking.                                                             *)
C24_BufferIsContent ==
    /\ [](activeAssistantIdRef # NoId => ActiveContents(thread) = {messages})
    /\ [][(activeAssistantIdRef' # NoId /\ activeAssistantIdRef' # activeAssistantIdRef)
              => last'.op \in AcceptOps /\ messages' = <<>>]_vars
    /\ [][last'.op = "message_chunk"
              => messages' = messages \o last'.input /\ ~isThinking']_vars
    /\ [][(/\ activeAssistantIdRef # NoId
            /\ activeAssistantIdRef' = activeAssistantIdRef
            /\ last'.op # "message_chunk")
              => messages' = messages]_vars

(* C24's case: two message chunks of different texts reached the active    *)
(* assistant message.                                                      *)
C24_Witness ==
    /\ activeAssistantIdRef # NoId
    /\ last.op = "message_chunk"
    /\ Len(messages) = 2
    /\ messages[1] # messages[2]
    /\ ActiveContents(thread) = {messages}

(* The characters of the thought texts: no other input holds one. *)
ThoughtChars == UNION {{x[i] : i \in 1..Len(x)} : x \in ThoughtVariants}

HoldsThought(text) == \E i \in 1..Len(text) : text[i] \in ThoughtChars

C26_SetConfigOption ==
    /\ [][last'.op = "set_config_option"
              => /\ CallNames(last'.calls) = {"acp_set_config_option"}
                 /\ configOptions' = configOptions]_vars
    /\ [][last'.op = "set_config_option_ok" => configOptions' = last'.arg]_vars
    /\ [][last'.op = "set_config_option_fail" => configOptions' = configOptions]_vars

(* C26's case: the agent returned a list without an option the local set   *)
(* held.                                                                   *)
C26_Witness ==
    /\ last.op = "set_config_option_ok"
    /\ configOptions = last.arg
    /\ \E i \in 1..Len(last.input) :
           \A j \in 1..Len(last.arg) : last.arg[j] # last.input[i]

(* C28: newConversation() empties the thread, resets all Turn state,       *)
(* unsets the active-conversation pointer, makes no store call, and leaves *)
(* the connection status and the ConfigOption set unchanged.               *)
C28_NewConversation ==
    [][last'.op = "new_conversation"
          => /\ thread' = <<>>
             /\ messages' = <<>> /\ thoughts' = <<>>
             /\ ~turnActive' /\ ~isThinking'
             /\ activeAssistantIdRef' = NoId
             /\ activeConversationId' = NoConv
             /\ last'.calls = <<>> /\ store' = store /\ pending' = pending
             /\ status' = status /\ configOptions' = configOptions]_vars

(* C28's case: newConversation() during an active turn of a stored         *)
(* conversation, on a connection with options.                             *)
C28_Witness ==
    /\ last.op = "new_conversation"
    /\ last.wasActive
    /\ StoredCount(store) > 0
    /\ status = "connected"
    /\ configOptions # <<>>
    /\ thread = <<>> /\ activeConversationId = NoConv /\ ~turnActive

(* The thread, the Turn state and the active-conversation pointer. *)
binderState ==
    <<thread, messages, thoughts, turnActive, isThinking, activeAssistantIdRef,
      activeConversationId>>

(* The state newConversation() leaves. *)
FreshConversation ==
    /\ thread = <<>>
    /\ messages = <<>> /\ thoughts = <<>>
    /\ ~turnActive /\ ~isThinking
    /\ activeAssistantIdRef = NoId
    /\ activeConversationId = NoConv

NonBlank(text) == \E i \in 1..Len(text) : text[i] # " "

StartupOp(o) == Op(o, 0)

(* An awaited call of the startup begins with the step taken. *)
Begins(o) == StartupOp(o) \in pending' /\ StartupOp(o) \notin pending

(* C29: on start, when the status queried is Connecting or Connected the   *)
(* startup issues no connect call, and it fetches the ConfigOptions if and *)
(* only if the status is Connected; otherwise it issues a connect call     *)
(* only if the saved configuration holds a binary path that is not empty   *)
(* once trimmed.                                                           *)
C29_StartupReattach ==
    /\ [][last'.op = "startup_status"
              => /\ ("acp_get_config_options" \in CallNames(last'.calls))
                        <=> status' = "connected"
                 /\ "acp_connect" \notin CallNames(last'.calls)
                 /\ status' \in {"connecting", "connected"}
                        => /\ "get_agent_config" \notin CallNames(last'.calls)
                           /\ StartupOp("startup_config") \notin pending']_vars
    /\ [][Begins("startup_config")
              => last'.op = "startup_status"
                     /\ status' \notin {"connecting", "connected"}]_vars
    /\ [][Begins("startup_env")
              => last'.op = "startup_config" /\ NonBlank(last'.input)]_vars
    /\ [][last'.op = "startup_connect"
              => \/ StartupOp("startup_config") \in pending /\ NonBlank(last'.input)
                 \/ StartupOp("startup_env") \in pending]_vars
    /\ [][(last'.op = "startup_config" /\ ~NonBlank(last'.input))
              => last'.calls = <<>> /\ pending' \cap StartupPending = {}]_vars

(* C29's case: the status queried was neither Connecting nor Connected and *)
(* the saved binary path was not blank: the startup connects.              *)
C29_Witness ==
    /\ last.op = "startup_connect"
    /\ NonBlank(last.input)
    /\ status = "connecting"
    /\ startupConnects = 1

(* C30: the startup reattachment runs at most once per process and issues  *)
(* at most one connect call; if that reconnect fails the status becomes    *)
(* Error and no further connect attempt is made automatically.             *)
C30_StartupOnce ==
    /\ [](startupConnects <= 1)
    /\ [][last'.op = "startup" => ~startupConnectAttempted]_vars
    /\ [][startupConnectAttempted => startupConnectAttempted']_vars
    /\ [][last'.op = "startup_skip"
              => last'.calls = <<>> /\ pending' = pending /\ status' = status]_vars
    /\ [][(last'.op \in {"connect_fail", "connect_opts_fail"} /\ last'.arg = 0)
              => /\ status' = "error"
                 /\ last'.calls = <<>>
                 /\ pending' \cap StartupPending = {}]_vars

(* C30's case: the reconnect of the startup failed and the effect ran      *)
(* again.                                                                  *)
C30_Witness ==
    /\ last.op = "startup_skip"
    /\ startupConnects = 1
    /\ status = "error"
    /\ pending = {}

(* The texts joined by commas, from the last one back. *)
RECURSIVE CommaJoined(_)
CommaJoined(texts) ==
    IF Len(texts) = 0 THEN <<>>
    ELSE IF Len(texts) = 1 THEN texts[1]
    ELSE CommaJoined(SubSeq(texts, 1, Len(texts) - 1)) \o <<",">> \o texts[Len(texts)]

(* The KEY=VALUE texts of the pairs that have a value. *)
KeyValues(pairs) ==
    LET valued == SelectSeq(pairs, LAMBDA kv : Len(kv[2]) > 0)
    IN  [i \in 1..Len(valued) |-> valued[i][1] \o <<"=">> \o valued[i][2]]

(* C31: the environment string sent on the automatic reconnect is the      *)
(* saved string and the stored per-agent KEY=VALUE pairs joined by commas, *)
(* pairs without a value skipped: the saved string when no pair has a      *)
(* value, the joined pairs alone when the saved string is empty, and       *)
(* saved, a comma and the joined pairs otherwise.                          *)
C31_EnvMerge ==
    [][(last'.op = "startup_connect" /\ Op("startup_env", 0) \in pending /\ last'.input.ok)
          => LET saved == last'.input.saved
                 joined == CommaJoined(KeyValues(last'.input.pairs))
             IN  /\ CallNames(last'.calls) = {"acp_connect"}
                 /\ last'.calls[1].content =
                        IF KeyValues(last'.input.pairs) = <<>> THEN saved
                        ELSE IF saved = <<>> THEN joined
                        ELSE saved \o <<",">> \o joined]_vars

(* C31's case: a saved string and two stored pairs, one without a value,   *)
(* were merged and sent.                                                   *)
C31_Witness ==
    /\ last.op = "startup_connect"
    /\ last.calls[1].content = <<"A", "=", "1", ",", "L", "=", "w">>
    /\ startupConnects = 1

(* The steps that end a turn by the program's design: the completion of    *)
(* the turn, a cancellation, a disconnect, and the resets of the           *)
(* conversation (load, new, delete of the active one, clear).              *)
TurnEnders ==
    {"turn_complete", "cancel_ok", "disconnect_ok", "load_ok",
     "new_conversation", "delete_ok", "clear_thread"}

(* The latest prompt was accepted and its outbound call acknowledged. *)
Acknowledged == curTurn # 0 /\ pr[curTurn].pc = "done" /\ pr[curTurn].sent

(* C32: a delivered turn_complete leaves the Turn Idle with isThinking     *)
(* false and the active-assistant pointer cleared; and an Active turn      *)
(* whose prompt was acknowledged stays Active over every step that is not  *)
(* a turn_complete, a cancellation, a disconnect or a conversation reset.  *)
C32_TurnEndsOnlyByCause ==
    /\ [](last.op = "turn_complete"
            => ~turnActive /\ ~isThinking /\ activeAssistantIdRef = NoId)
    /\ [][(turnActive /\ Acknowledged /\ last'.op \notin TurnEnders)
            => turnActive']_vars


(* C33: the content passed to add_conversation_message(role=assistant) at  *)
(* turn_complete is the whole text of the turn's assistant message (every  *)
(* message_chunk delivered before the turn_complete), also when the last   *)
(* chunks and the turn_complete are handled before a render has refreshed  *)
(* threadRef.                                                              *)
C33_PersistsWholeText ==
    [][(/\ last'.op = "turn_complete"
        /\ last'.calls # <<>>
        /\ FindFirst(thread, activeAssistantIdRef) # 0)
           => last'.calls[1].content =
                  thread[FindFirst(thread, activeAssistantIdRef)].content]_vars

(* C34: when acp_resolve_permission for request r resolves while a        *)
(* different request is outstanding, the outstanding request stays:         *)
(* resolvePermission clears the request only if it is still r.             *)
C34_ResolveClearsOnlyOwn ==
    [][(/\ last'.op = "resolve_ok"
        /\ permissionRequest # NoPermission
        /\ permissionRequest.request_id # last'.arg.id)
           => permissionRequest' = permissionRequest]_vars

(* C37: an outstanding PermissionRequest implies an Active turn: after    *)
(* turn_complete, cancel(), disconnect(), newConversation(), clearThread() *)
(* or loadConversation() no PermissionRequest remains outstanding.         *)
C37_RequestOnlyWhileActive == permissionRequest # NoPermission => turnActive

(* C38: isThinking is true only while a Turn is Active: no thought_chunk  *)
(* or tool_call event arriving while the Turn is Idle sets it.             *)
C38_ThinkingOnlyWhileActive == isThinking => turnActive

(* C39: connect() sets the status to Error only when acp_connect itself   *)
(* fails: a failure of the get_config_options call that follows a          *)
(* successful connect leaves the status as it was.                         *)
C39_ErrorOnlyOnConnectFailure ==
    [][last'.op = "connect_opts_fail" => status' = status /\ status' # "error"]_vars

(* C35: prompts that overlap with no active conversation make at most one *)
(* create_conversation call, and at most one of them goes on to hold the   *)
(* Active turn with its assistant placeholder: no two prompt() calls are   *)
(* awaiting create_conversation at once, and no two are between their      *)
(* acceptance and the end of their outbound call at once.                  *)
C35_OneCreatePerOverlap ==
    /\ Cardinality({p \in 1..MaxPrompts : pr[p].pc = "creating"}) <= 1
    /\ Cardinality({p \in 1..MaxPrompts : pr[p].pc \in {"fetching", "sending"}}) <= 1

(* The conversation an entry of the thread belongs to: for an entry       *)
(* rebuilt from the store the conversation that holds its message, for an  *)
(* entry a prompt appended the conversation that prompt persists to.       *)
EntryConversation(entry, st, prompts) ==
    IF entry.id.k = "db"
    THEN CHOOSE c \in 1..Len(st) : \E j \in 1..Len(st[c]) : st[c][j].id = entry.id
    ELSE prompts[entry.id.n].conv

(* C36: when loadConversation() or newConversation() has completed while  *)
(* a prompt awaited create_conversation, the state the prompt leaves is    *)
(* consistent: every user and assistant entry of the thread belongs to the *)
(* conversation the active-conversation pointer names.                     *)
C36_ThreadOfOneConversation ==
    [][(last'.op = "create_ok" /\ loaded # NoConv)
           => \A i \in 1..Len(thread') :
                  thread'[i].role \in {"user", "assistant"}
                      => EntryConversation(thread'[i], store', pr') = activeConversationId']_vars

(* An option that approves by its words: its kind or its name contains    *)
(* "allow" or "approve", in any case of letters.                           *)
Approving(option) ==
    \E text \in {toLowerCase(option.kind), toLowerCase(option.name)} :
        \/ includes(text, <<"a","l","l","o","w">>)
        \/ includes(text, <<"a","p","p","r","o","v","e">>)

(* C40: for every non-empty option list the deny action of the permission *)
(* dialog (Escape or the No button) never resolves the request with an     *)
(* option whose kind or name contains "allow" or "approve", and never with *)
(* the option the approve action (Enter or Yes) would send.                *)
C40_DenyNeverApproves ==
    (last.op = "resolve" /\ last.input # <<>> /\ last.input.action = "deny")
        => LET variant == last.input.variant
               options == last.input.options
           IN  /\ ~Approving(Sent(variant, "deny", options))
               /\ Sent(variant, "deny", options) # Sent(variant, "approve", options)

====
